---- MODULE Spec2Model ----
(***************************************************************************)
(* The name-resolution pass of crates/mew-resolve/src/resolver.rs.         *)
(*                                                                         *)
(* The syntax tree is a tree of records.  An identifier is a sequence of   *)
(* one-character strings, so that the string operations of the mangler     *)
(* (replace, join, push_str) are computed and not assumed.  Every walker   *)
(* of the code is an operator that returns the rewritten node, the scope   *)
(* it leaves behind, the error it raised (if any) and the trace of the     *)
(* paths handed to the rewriter.                                           *)
(***************************************************************************)
EXTENDS Integers, Sequences, FiniteSets, TLC

VARIABLES
  tu,                  \* the translation unit, mutated in place
  input,               \* the translation unit as handed to the current run
  scope,               \* root scope of translation_unit_to_absolute_path
  pc,                  \* position in translation_unit_to_absolute_path
  idx,                 \* index of the loop the pass is in
  modules,             \* activations of module_to_absolute_path, innermost last
  other_directives,    \* local of translation_unit_to_absolute_path
  extend_directives,   \* local of translation_unit_to_absolute_path
  result,              \* what resolve_mut returned: pending, Ok or an error
  trace,               \* paths handed to the rewriter so far (this run)
  run,                 \* number of the current run of resolve_mut
  first_output,        \* the tree the first run left behind
  given,               \* the parameters the first input was built from
  ma, mb, mout         \* two mangler inputs and their mangled names

vars == <<tu, input, scope, pc, idx, modules, other_directives, extend_directives,
          result, trace, run, first_output, given, ma, mb, mout>>

(***************************************************************************)
(* Option<T>                                                               *)
(***************************************************************************)
None == [some |-> FALSE]
Some(v) == [some |-> TRUE, v |-> v]

(***************************************************************************)
(* Results of the walkers: node, scope, error, threaded pass state.        *)
(***************************************************************************)
NoErr == [kind |-> "none"]
\* an error that carries the first segment only
FirstSegmentNotFound(path, span) ==
  [kind |-> "SymbolNotFound", path |-> SubSeq(path, 1, 1), span |-> span]
SymbolNotFound(path, span) == [kind |-> "SymbolNotFound", path |-> path, span |-> span]
\* an error returned where the code panics
ReturnedNotFound == [kind |-> "SymbolNotFound", path |-> <<>>, span |-> 0]
InvariantFailure == [kind |-> "panic"]
StackOverflow == [kind |-> "stack overflow"]

\* nesting of add_extension_to_scope calls the model follows
MaxExtendDepth == 1

Res(n, sc, e, st) == [n |-> n, sc |-> sc, e |-> e, st |-> st]
Failed(r) == r.e.kind # "none"
\* the `?` operator: a child that is not reached once an error was raised
Skip(child, r) == Res(child, r.sc, r.e, r.st)

\* `let x = value;`: the rest of a function body reads the value under a name
Bind(value, F(_)) == F(value)
\* the last call of a function body: its outcome, with the caller's node
\* rebuilt around the child it walked and the caller's scope left as it was
Last(value, sc, F(_)) == [value EXCEPT !.n = F(@), !.sc = sc]
\* the same where the scope the call left behind is the caller's (&mut scope)
Rebuilt(value, F(_)) == [value EXCEPT !.n = F(@)]

\* a loop `for x in seq.iter_mut() { F(x, &mut scope)?; }`
WalkSeq(F(_, _, _), seq, sc, st) ==
  LET go[i \in 0..Len(seq)] ==
        IF i = 0 THEN Res(<<>>, sc, NoErr, st)
        ELSE Bind(go[i - 1], LAMBDA prev :
               IF Failed(prev) THEN [prev EXCEPT !.n = Append(@, seq[i])]
               ELSE [F(seq[i], prev.sc, prev.st) EXCEPT !.n = Append(prev.n, @)])
  IN go[Len(seq)]

\* `if let Some(x) = opt.as_mut() { F(x)?; }`
WalkOpt(F(_, _, _), opt, sc, st) ==
  IF opt.some
  THEN Rebuilt(F(opt.v, sc, st), LAMBDA r : Some(r))
  ELSE Res(opt, sc, NoErr, st)

(***************************************************************************)
(* Syntax tree constructors (mew_parse::syntax)                            *)
(***************************************************************************)
PathPart(name, template_args, inline_template_args) ==
  [name |-> name, template_args |-> template_args,
   inline_template_args |-> inline_template_args]
Part(name) == PathPart(name, None, None)
Spanned(value, span) == [value |-> value, span |-> span]
Names(parts) == [i \in 1..Len(parts) |-> parts[i].name]

(***************************************************************************)
(* im::HashMap<String, ScopeMember>                                        *)
(***************************************************************************)
LocalDeclaration == [kind |-> "LocalDeclaration"]
BuiltIn == [kind |-> "BuiltIn"]
FormalFunctionParameter == [kind |-> "FormalFunctionParameter"]
ModuleMemberDeclaration(module_path, decl) ==
  [kind |-> "ModuleMemberDeclaration", module_path |-> module_path, decl |-> decl]
UseDeclaration(module_path, template_args) ==
  [kind |-> "UseDeclaration", module_path |-> module_path, template_args |-> template_args]
GlobalDeclaration(decl) == [kind |-> "GlobalDeclaration", decl |-> decl]
TemplateParam(new_name) == [kind |-> "TemplateParam", new_name |-> new_name]
Inline(module_path) == [kind |-> "Inline", module_path |-> module_path]

EmptyScope == [x \in {} |-> BuiltIn]
insert(sc, name, member) == (name :> member) @@ sc

(***************************************************************************)
(* mangle_template_parameter_name                                          *)
(***************************************************************************)
RECURSIVE replace_underscore(_)
\* str::replace('_', "__")
replace_underscore(s) ==
  IF s = <<>> THEN <<>>
  ELSE (IF Head(s) = "_" THEN <<"_", "_">> ELSE <<Head(s)>>) \o replace_underscore(Tail(s))

RECURSIVE join(_, _)
\* [String]::join(sep)
join(segs, sep) ==
  IF segs = <<>> THEN <<>>
  ELSE IF Len(segs) = 1 THEN segs[1]
  ELSE segs[1] \o sep \o join(Tail(segs), sep)

mangle_template_parameter_name(module_path, containing_name, old_arg_name) ==
  LET chained == Names(module_path) \o <<containing_name>>
      path == join([i \in 1..Len(chained) |-> replace_underscore(chained[i])], <<"_">>)
  IN path \o <<"_">> \o replace_underscore(old_arg_name)

(***************************************************************************)
(* append_from_scope                                                       *)
(***************************************************************************)
append_from_scope(sc, path) ==
  IF path.value = <<>> THEN [n |-> path, e |-> NoErr, kind |-> "empty"]
  ELSE
    LET first == path.value[1].name IN
    IF first \in DOMAIN sc
    THEN
      LET symbol == sc[first] IN
      CASE symbol.kind = "ModuleMemberDeclaration" ->
             [n |-> [path EXCEPT !.value = symbol.module_path \o path.value],
              e |-> NoErr, kind |-> symbol.kind]
        [] symbol.kind = "UseDeclaration" ->
             \* the template arguments are stored on path[0], which skip(1) drops
             LET stored == IF symbol.template_args.some /\ symbol.template_args.v # <<>>
                           THEN [path.value EXCEPT ![1].template_args = symbol.template_args]
                           ELSE path.value
             IN [n |-> [path EXCEPT !.value = symbol.module_path \o Tail(stored)],
                 e |-> NoErr, kind |-> symbol.kind]
        [] symbol.kind = "TemplateParam" ->
             [n |-> [path EXCEPT !.value[1].name = symbol.new_name],
              e |-> NoErr, kind |-> symbol.kind]
        [] symbol.kind = "Inline" ->
             [n |-> [path EXCEPT !.value = symbol.module_path \o Tail(path.value)],
              e |-> NoErr, kind |-> symbol.kind]
        [] OTHER -> [n |-> path, e |-> NoErr, kind |-> symbol.kind]
    ELSE [n |-> path, e |-> SymbolNotFound(path.value, path.span), kind |-> "unbound"]

\* a loop over a sequence whose body also reads the element's position
WalkSeqI(F(_, _, _, _), seq, sc, st) ==
  LET go[i \in 0..Len(seq)] ==
        IF i = 0 THEN Res(<<>>, sc, NoErr, st)
        ELSE Bind(go[i - 1], LAMBDA prev :
               IF Failed(prev) THEN [prev EXCEPT !.n = Append(@, seq[i])]
               ELSE [F(i, seq[i], prev.sc, prev.st) EXCEPT !.n = Append(prev.n, @)])
  IN go[Len(seq)]

\* one entry of the trace: the path handed to the rewriter and how its first
\* segment was bound
Visit(path, kind) == [span |-> path.span, names |-> Names(path.value), kind |-> kind]
Record(st, path, kind) == [st EXCEPT !.trace = Append(@, Visit(path, kind))]

\* every call of one resolver function by another goes through the call table
\* Call, by the callee's name; the table follows the last of them
RECURSIVE Call(_, _)

(***************************************************************************)
(* inline_template_args_to_absolute_path, relative_path_to_absolute_path   *)
(***************************************************************************)
\* template arguments that the rewriter leaves to its callers
template_args_left_alone(template_args, module_path, sc, st) ==
  Res(template_args, sc, NoErr, st)

\* lines 793-804: the template arguments of one part are walked as expressions
template_args_to_absolute_paths(template_args, module_path, sc, st) ==
  WalkSeq(LAMBDA arg, s, t :
            Last(Call("expression_to_absolute_paths", <<arg.expression, module_path, s, t>>), s,
                 LAMBDA r : [arg EXCEPT !.expression = r]),
          template_args, sc, st)

inline_template_args_to_absolute_path(module_path, path, sc, st) ==
  Bind(append_from_scope(sc, Spanned(SubSeq(path.value, 1, 1), path.span)), LAMBDA first :
    IF first.e.kind # "none" THEN Res(path, sc, first.e, st)
    ELSE
      Rebuilt(WalkSeqI(LAMBDA i, p, s, t :
             Bind(IF p.inline_template_args.some
                  THEN Call("expand_inline_template_args",
                            <<module_path, i, path,
                              IF first.n.value = <<>> THEN <<>>
                              ELSE SubSeq(first.n.value, 1, Len(first.n.value) - 1),
                              sc, s, t>>)
                  ELSE Res([part |-> p,
                            args |-> IF p.template_args.some THEN p.template_args.v ELSE <<>>],
                           s, NoErr, t), LAMBDA x :
             Bind(IF Failed(x) THEN Skip(x.n.args, x)
                  ELSE Call("template_args_to_absolute_paths",
                            <<x.n.args, module_path, x.sc, x.st>>), LAMBDA a :
               IF Failed(a)
               THEN Res([x.n.part EXCEPT !.template_args = None], x.sc, a.e, a.st)
               ELSE Res([x.n.part EXCEPT !.template_args =
                            IF a.n = <<>> THEN None ELSE Some(a.n)], x.sc, NoErr, a.st))),
             path.value, sc, st),
           LAMBDA r : [path EXCEPT !.value = r]))

\* how a path is recorded whose walk ended before its lookup (line 402): its
\* own first segment is unbound (lines 710-711), or the walk of its template
\* arguments or of its inline block has failed
Unreached(sc, path) ==
  IF path.value # <<>> /\ path.value[1].name \notin DOMAIN sc THEN "unbound"
  ELSE "abandoned"

\* an unresolved path that is passed over: the walk goes on
unresolved_path_passed_over(sc, module_path, path, st) ==
  Bind(inline_template_args_to_absolute_path(module_path, path, sc, st), LAMBDA i :
    IF Failed(i) THEN Res(i.n, sc, NoErr, Record(i.st, path, Unreached(sc, path)))
    ELSE Bind(append_from_scope(i.sc, i.n),
              LAMBDA a : Res(a.n, sc, NoErr, Record(i.st, path, a.kind))))

relative_path_to_absolute_path(sc, module_path, path, st) ==
  Bind(inline_template_args_to_absolute_path(module_path, path, sc, st), LAMBDA i :
    IF Failed(i) THEN Res(i.n, sc, i.e, Record(i.st, path, Unreached(sc, path)))
    ELSE Bind(append_from_scope(i.sc, i.n),
              LAMBDA a : Res(a.n, sc, a.e, Record(i.st, path, a.kind))))

type_to_absolute_path(typ, module_path, sc, st) ==
  Last(Call("relative_path_to_absolute_path", <<sc, module_path, typ.path, st>>), sc,
       LAMBDA r : [typ EXCEPT !.path = r])

(***************************************************************************)
(* expression_to_absolute_paths                                            *)
(***************************************************************************)
expression_to_absolute_paths(expression, module_path, sc, st) ==
  CASE expression.kind = "Literal" -> Res(expression, sc, NoErr, st)
    [] expression.kind = "Parenthesized" ->
         Last(Call("expression_to_absolute_paths", <<expression.expression, module_path, sc, st>>), sc,
              LAMBDA r : [expression EXCEPT !.expression = r])
    [] expression.kind = "NamedComponent" ->
         Last(Call("expression_to_absolute_paths", <<expression.base, module_path, sc, st>>), sc,
              LAMBDA r : [expression EXCEPT !.base = r])
    [] expression.kind = "Indexing" ->
         \* only idx.base is walked
         Last(Call("expression_to_absolute_paths", <<expression.base, module_path, sc, st>>), sc,
              LAMBDA r : [expression EXCEPT !.base = r])
    [] expression.kind = "Unary" ->
         Last(Call("expression_to_absolute_paths", <<expression.operand, module_path, sc, st>>), sc,
              LAMBDA r : [expression EXCEPT !.operand = r])
    [] expression.kind = "Binary" ->
         Bind(Call("expression_to_absolute_paths", <<expression.left, module_path, sc, st>>),
              LAMBDA l :
         Last(IF Failed(l) THEN Skip(expression.right, l)
              ELSE Call("expression_to_absolute_paths", <<expression.right, module_path, sc, l.st>>), sc,
              LAMBDA r : [expression EXCEPT !.left = l.n, !.right = r]))
    [] expression.kind = "FunctionCall" ->
         Bind(Call("relative_path_to_absolute_path", <<sc, module_path, expression.path, st>>),
              LAMBDA p :
         Last(IF Failed(p) THEN Skip(expression.arguments, p)
              ELSE WalkSeq(LAMBDA x, s, t :
                             Call("expression_to_absolute_paths", <<x, module_path, sc, t>>),
                           expression.arguments, sc, p.st), sc,
              LAMBDA a : [expression EXCEPT !.path = p.n, !.arguments = a]))
    [] expression.kind = "Identifier" ->
         Last(Call("relative_path_to_absolute_path", <<sc, module_path, expression.path, st>>), sc,
              LAMBDA p : [expression EXCEPT !.path = p])
    [] expression.kind = "Type" ->
         Last(Call("type_to_absolute_path", <<expression.typ, module_path, sc, st>>), sc,
              LAMBDA r : [expression EXCEPT !.typ = r])

(***************************************************************************)
(* add_usage_to_scope                                                      *)
(***************************************************************************)
add_usage_to_scope(usage, module_path, sc, st) ==
  Bind(IF usage.path.value # <<>>
       THEN Call("relative_path_to_absolute_path", <<sc, module_path, usage.path, st>>)
       ELSE Res(usage.path, sc, NoErr, st), LAMBDA p :
    IF Failed(p) THEN Res([usage EXCEPT !.path = p.n], sc, p.e, p.st)
    ELSE IF usage.content.kind = "Item"
    THEN Bind(Call("relative_path_to_absolute_path",
                   <<sc, module_path,
                     [p.n EXCEPT !.value =
                        Append(@, PathPart(usage.content.name, usage.content.template_args,
                                           usage.content.inline_template_args))],
                     p.st>>), LAMBDA r :
           IF Failed(r) THEN Res([usage EXCEPT !.path = p.n], sc, r.e, r.st)
           ELSE Res([usage EXCEPT !.path = p.n],
                    insert(sc,
                           IF usage.content.rename.some THEN usage.content.rename.v
                           ELSE usage.content.name,
                           UseDeclaration(r.n.value, usage.content.template_args)),
                    NoErr, r.st))
    ELSE \* UseContent::Collection: the parent's path is appended to each child's
         Rebuilt(WalkSeq(LAMBDA c, s, t :
                        Call("add_usage_to_scope",
                             <<[c EXCEPT !.path.value = @ \o p.n.value], module_path, s, t>>),
                      usage.content.uses, sc, p.st), LAMBDA r :
           [usage EXCEPT !.path = p.n, !.content.uses = r]))

(***************************************************************************)
(* add_all_local_declarations_recursively_to_scope_ONLY_FOR_loop_statement *)
(***************************************************************************)
RECURSIVE add_all_local_declarations_recursively_to_scope_ONLY_FOR_loop_statement(_, _)
add_all_local_declarations_recursively_to_scope_ONLY_FOR_loop_statement(decl, sc) ==
  LET go[i \in 0..Len(decl.statements)] ==
        IF i = 0 THEN insert(sc, decl.declaration.name, LocalDeclaration)
        ELSE IF decl.statements[i].kind = "Declaration"
             THEN add_all_local_declarations_recursively_to_scope_ONLY_FOR_loop_statement(
                    decl.statements[i], go[i - 1])
             ELSE go[i - 1]
  IN go[Len(decl.statements)]

\* lines 139-147 and 159-163: the declaration statements of a block
add_block_declarations(statements, sc) ==
  LET go[i \in 0..Len(statements)] ==
        IF i = 0 THEN sc
        ELSE IF statements[i].kind = "Declaration"
             THEN add_all_local_declarations_recursively_to_scope_ONLY_FOR_loop_statement(
                    statements[i], go[i - 1])
             ELSE go[i - 1]
  IN go[Len(statements)]

(***************************************************************************)
(* compound_statement_to_absolute_paths, statement_to_absolute_paths       *)
(***************************************************************************)
compound_statement_to_absolute_paths(statement, module_path, sc, st) ==
  Bind(WalkSeq(LAMBDA x, s, t : Call("add_usage_to_scope", <<x, module_path, s, t>>),
               statement.directives, sc, st), LAMBDA u :
  Last(IF Failed(u) THEN Skip(statement.statements, u)
       ELSE WalkSeq(LAMBDA x, s, t :
                      Call("statement_to_absolute_paths", <<x, module_path, s, t>>),
                    statement.statements, u.sc, u.st), sc, LAMBDA c :
    [statement EXCEPT !.directives = u.n, !.statements = c]))

\* one clause `(condition, body)` of an if statement
clause_to_absolute_paths(clause, module_path, sc, st) ==
  Bind(Call("expression_to_absolute_paths", <<clause.condition, module_path, sc, st>>),
       LAMBDA e :
  Last(IF Failed(e) THEN Skip(clause.body, e)
       ELSE Call("compound_statement_to_absolute_paths",
                 <<clause.body, module_path, sc, e.st>>), sc, LAMBDA b :
    [clause EXCEPT !.condition = e.n, !.body = b]))

\* one clause of a switch statement
switch_clause_to_absolute_paths(clause, module_path, sc, st) ==
  Bind(WalkSeq(LAMBDA x, s, t :
                 IF x.kind = "Default" THEN Res(x, s, NoErr, t)
                 ELSE Last(Call("expression_to_absolute_paths",
                                <<x.expression, module_path, s, t>>), s,
                           LAMBDA r : [x EXCEPT !.expression = r]),
               clause.case_selectors, sc, st), LAMBDA c :
  Last(IF Failed(c) THEN Skip(clause.body, c)
       ELSE Call("compound_statement_to_absolute_paths",
                 <<clause.body, module_path, sc, c.st>>), sc, LAMBDA b :
    [clause EXCEPT !.case_selectors = c.n, !.body = b]))

loop_to_absolute_paths(l, module_path, sc, st) ==
  Bind(WalkSeq(LAMBDA x, s, t : Call("add_usage_to_scope", <<x, module_path, s, t>>),
               l.body.directives, sc, st), LAMBDA u1 :
  Bind(IF Failed(u1) THEN Skip([l.body EXCEPT !.directives = u1.n], u1)
       ELSE Call("compound_statement_to_absolute_paths",
                 <<[l.body EXCEPT !.directives = u1.n], module_path, u1.sc, u1.st>>),
       LAMBDA c1 :
    IF Failed(c1) \/ ~l.continuing.some
    THEN Res([l EXCEPT !.body = c1.n], sc, c1.e, c1.st)
    ELSE
      Bind(WalkSeq(LAMBDA x, s, t : Call("add_usage_to_scope", <<x, module_path, s, t>>),
                   l.continuing.v.body.directives,
                   add_block_declarations(c1.n.statements, u1.sc), c1.st), LAMBDA u2 :
      \* the loop body, not the continuing body, is walked again
      Bind(IF Failed(u2) THEN Skip(c1.n, u2)
           ELSE Call("compound_statement_to_absolute_paths",
                     <<c1.n, module_path, u2.sc, u2.st>>), LAMBDA c2 :
      Last(IF Failed(c2) THEN Skip(l.continuing.v.break_if, c2)
           ELSE WalkOpt(LAMBDA x, s, t :
                          Call("expression_to_absolute_paths", <<x, module_path, s, t>>),
                        l.continuing.v.break_if,
                        add_block_declarations(l.continuing.v.body.statements, u2.sc),
                        c2.st), sc, LAMBDA b :
        [l EXCEPT !.body = c2.n,
                      !.continuing = Some([l.continuing.v EXCEPT !.body.directives = u2.n,
                                                                 !.break_if = b])])))))

\* lines 176-180: the scope of the condition, the update and the body
for_scope(f, sc) ==
  IF f.initializer.some /\ f.initializer.v.kind = "Declaration"
  THEN insert(sc, f.initializer.v.declaration.name, LocalDeclaration)
  ELSE sc

\* a for statement that leaves the name of its initializer bound for the
\* statements after it
for_left_bound(f, module_path, sc, st) ==
  Bind(WalkOpt(LAMBDA x, s, t : Call("statement_to_absolute_paths", <<x, module_path, s, t>>),
               f.initializer, sc, st), LAMBDA i :
  Bind(IF Failed(i) THEN Skip(f.condition, i)
       ELSE WalkOpt(LAMBDA x, s, t :
                      Call("expression_to_absolute_paths", <<x, module_path, s, t>>),
                    f.condition, for_scope(f, sc), i.st), LAMBDA c :
  Bind(IF Failed(c) THEN Skip(f.update, c)
       ELSE WalkOpt(LAMBDA x, s, t :
                      Call("statement_to_absolute_paths", <<x, module_path, s, t>>),
                    f.update, for_scope(f, sc), c.st), LAMBDA u :
  Last(IF Failed(u) THEN Skip(f.body, u)
       ELSE Call("compound_statement_to_absolute_paths",
                 <<f.body, module_path, for_scope(f, sc), u.st>>),
       for_scope(f, sc), LAMBDA b :
    [f EXCEPT !.initializer = i.n, !.condition = c.n, !.update = u.n, !.body = b]))))

for_to_absolute_paths(f, module_path, sc, st) ==
  Bind(WalkOpt(LAMBDA x, s, t : Call("statement_to_absolute_paths", <<x, module_path, s, t>>),
               f.initializer, sc, st), LAMBDA i :
  Bind(IF Failed(i) THEN Skip(f.condition, i)
       ELSE WalkOpt(LAMBDA x, s, t :
                      Call("expression_to_absolute_paths", <<x, module_path, s, t>>),
                    f.condition, for_scope(f, sc), i.st), LAMBDA c :
  Bind(IF Failed(c) THEN Skip(f.update, c)
       ELSE WalkOpt(LAMBDA x, s, t :
                      Call("statement_to_absolute_paths", <<x, module_path, s, t>>),
                    f.update, for_scope(f, sc), c.st), LAMBDA u :
  Last(IF Failed(u) THEN Skip(f.body, u)
       ELSE Call("compound_statement_to_absolute_paths",
                 <<f.body, module_path, for_scope(f, sc), u.st>>), sc, LAMBDA b :
    [f EXCEPT !.initializer = i.n, !.condition = c.n, !.update = u.n, !.body = b]))))

\* a declaration statement that binds its name before it walks the
\* initializer and the type
declaration_bound_early(d, module_path, sc, st) ==
  Bind(WalkOpt(LAMBDA x, s, t : Call("expression_to_absolute_paths", <<x, module_path, s, t>>),
               d.declaration.initializer,
               insert(sc, d.declaration.name, LocalDeclaration), st), LAMBDA i :
  Bind(IF Failed(i) THEN Skip(d.declaration.typ, i)
       ELSE WalkOpt(LAMBDA x, s, t : Call("type_to_absolute_path", <<x, module_path, s, t>>),
                    d.declaration.typ, i.sc, i.st), LAMBDA y :
  Last(IF Failed(y) THEN Skip(d.statements, y)
       ELSE WalkSeq(LAMBDA x, s, t :
                      Call("statement_to_absolute_paths", <<x, module_path, s, t>>),
                    d.statements, i.sc, y.st), sc,
       LAMBDA b :
    [d EXCEPT !.declaration.initializer = i.n, !.declaration.typ = y.n,
                  !.statements = b])))

declaration_statement_to_absolute_paths(d, module_path, sc, st) ==
  Bind(WalkOpt(LAMBDA x, s, t : Call("expression_to_absolute_paths", <<x, module_path, s, t>>),
               d.declaration.initializer, sc, st), LAMBDA i :
  Bind(IF Failed(i) THEN Skip(d.declaration.typ, i)
       ELSE WalkOpt(LAMBDA x, s, t : Call("type_to_absolute_path", <<x, module_path, s, t>>),
                    d.declaration.typ, sc, i.st), LAMBDA y :
  Last(IF Failed(y) THEN Skip(d.statements, y)
       ELSE WalkSeq(LAMBDA x, s, t :
                      Call("statement_to_absolute_paths", <<x, module_path, s, t>>),
                    d.statements, insert(sc, d.declaration.name, LocalDeclaration), y.st), sc,
       LAMBDA b :
    [d EXCEPT !.declaration.initializer = i.n, !.declaration.typ = y.n,
                  !.statements = b])))

statement_to_absolute_paths(statement, module_path, sc, st) ==
  CASE statement.kind \in {"Void", "Break", "Continue", "Discard"} ->
         Res(statement, sc, NoErr, st)
    [] statement.kind = "Compound" ->
         Last(Call("compound_statement_to_absolute_paths",
                   <<statement.body, module_path, sc, st>>), sc,
              LAMBDA r : [statement EXCEPT !.body = r])
    [] statement.kind = "Assignment" ->
         Bind(Call("expression_to_absolute_paths", <<statement.lhs, module_path, sc, st>>),
              LAMBDA l :
         Last(IF Failed(l) THEN Skip(statement.rhs, l)
              ELSE Call("expression_to_absolute_paths",
                        <<statement.rhs, module_path, sc, l.st>>), sc,
              LAMBDA r : [statement EXCEPT !.lhs = l.n, !.rhs = r]))
    [] statement.kind \in {"Increment", "Decrement", "ConstAssert"} ->
         Last(Call("expression_to_absolute_paths",
                   <<statement.expression, module_path, sc, st>>), sc,
              LAMBDA r : [statement EXCEPT !.expression = r])
    [] statement.kind = "If" ->
         Bind(Call("clause_to_absolute_paths", <<statement.if_clause, module_path, sc, st>>),
              LAMBDA i :
         Bind(IF Failed(i) THEN Skip(statement.else_if_clauses, i)
              ELSE WalkSeq(LAMBDA x, s, t :
                             Call("clause_to_absolute_paths", <<x, module_path, s, t>>),
                           statement.else_if_clauses, sc, i.st), LAMBDA ei :
         Last(IF Failed(ei) THEN Skip(statement.else_clause, ei)
              ELSE WalkOpt(LAMBDA x, s, t :
                             Call("compound_statement_to_absolute_paths",
                                  <<x, module_path, s, t>>),
                           statement.else_clause, sc, ei.st), sc, LAMBDA el :
           [statement EXCEPT !.if_clause = i.n, !.else_if_clauses = ei.n,
                                 !.else_clause = el])))
    [] statement.kind = "Switch" ->
         Bind(Call("expression_to_absolute_paths",
                   <<statement.expression, module_path, sc, st>>), LAMBDA e :
         Last(IF Failed(e) THEN Skip(statement.clauses, e)
              ELSE WalkSeq(LAMBDA x, s, t :
                             Call("switch_clause_to_absolute_paths", <<x, module_path, s, t>>),
                           statement.clauses, sc, e.st), sc, LAMBDA c :
           [statement EXCEPT !.expression = e.n, !.clauses = c]))
    [] statement.kind = "Loop" ->
         loop_to_absolute_paths(statement, module_path, sc, st)
    [] statement.kind = "For" ->
         for_to_absolute_paths(statement, module_path, sc, st)
    [] statement.kind = "While" ->
         Bind(Call("expression_to_absolute_paths",
                   <<statement.condition, module_path, sc, st>>), LAMBDA e :
         Last(IF Failed(e) THEN Skip(statement.body, e)
              ELSE Call("compound_statement_to_absolute_paths",
                        <<statement.body, module_path, sc, e.st>>), sc, LAMBDA b :
           [statement EXCEPT !.condition = e.n, !.body = b]))
    [] statement.kind = "Return" ->
         Last(WalkOpt(LAMBDA x, s, t :
                        Call("expression_to_absolute_paths", <<x, module_path, s, t>>),
                      statement.expression, sc, st), sc,
              LAMBDA r : [statement EXCEPT !.expression = r])
    [] statement.kind = "FunctionCall" ->
         Bind(Call("relative_path_to_absolute_path",
                   <<sc, module_path, statement.path, st>>), LAMBDA p :
         Last(IF Failed(p) THEN Skip(statement.arguments, p)
              ELSE WalkSeq(LAMBDA x, s, t :
                             Call("expression_to_absolute_paths", <<x, module_path, s, t>>),
                           statement.arguments, sc, p.st), sc, LAMBDA a :
           [statement EXCEPT !.path = p.n, !.arguments = a]))
    [] statement.kind = "Declaration" ->
         declaration_statement_to_absolute_paths(statement, module_path, sc, st)

(***************************************************************************)
(* Template parameters                                                     *)
(***************************************************************************)
\* the loop shared by the function, alias, declaration and struct variants:
\* the default value is walked before the parameter is renamed and bound
mangled_template_parameters(module_path, containing_name, params, sc, st) ==
  WalkSeq(LAMBDA param, s, t :
            Bind(WalkOpt(LAMBDA x, s2, t2 :
                           Call("expression_to_absolute_paths", <<x, module_path, s2, t2>>),
                         param.default_value, s, t), LAMBDA d :
            Bind(mangle_template_parameter_name(module_path, containing_name, param.name),
                 LAMBDA new_name :
              IF Failed(d) THEN Res([param EXCEPT !.default_value = d.n], s, d.e, d.st)
              ELSE Res([param EXCEPT !.default_value = d.n, !.name = new_name],
                       insert(insert(s, new_name, TemplateParam(new_name)),
                              param.name, TemplateParam(new_name)),
                       NoErr, d.st))),
          params, sc, st)

function_template_parameters_to_absolute_path(module_path, function, sc, st) ==
  Rebuilt(Call("mangled_template_parameters",
            <<module_path, function.name, function.template_parameters, sc, st>>),
       LAMBDA r : [function EXCEPT !.template_parameters = r])

alias_template_parameters_to_absolute_path(module_path, alias, sc, st) ==
  Rebuilt(Call("mangled_template_parameters",
            <<module_path, alias.name, alias.template_parameters, sc, st>>),
       LAMBDA r : [alias EXCEPT !.template_parameters = r])

decl_template_parameters_to_absolute_path(module_path, declaration, sc, st) ==
  Rebuilt(Call("mangled_template_parameters",
            <<module_path, declaration.name, declaration.template_parameters, sc, st>>),
       LAMBDA r : [declaration EXCEPT !.template_parameters = r])

struct_template_parameters_to_absolute_path(module_path, strct, sc, st) ==
  Rebuilt(Call("mangled_template_parameters",
            <<module_path, strct.name, strct.template_parameters, sc, st>>),
       LAMBDA r : [strct EXCEPT !.template_parameters = r])

\* const-assert parameters keep their name
const_assert_template_parameters_to_absolute_path(module_path, const_assert, sc, st) ==
  Rebuilt(WalkSeq(LAMBDA param, s, t :
                 Bind(WalkOpt(LAMBDA x, s2, t2 :
                                Call("expression_to_absolute_paths",
                                     <<x, module_path, s2, t2>>),
                              param.default_value, s, t), LAMBDA d :
                   IF Failed(d) THEN Res([param EXCEPT !.default_value = d.n], s, d.e, d.st)
                   ELSE Res([param EXCEPT !.default_value = d.n],
                            insert(s, param.name, TemplateParam(param.name)),
                            NoErr, d.st)),
               const_assert.template_parameters, sc, st),
       LAMBDA r : [const_assert EXCEPT !.template_parameters = r])

\* lines 497-519: the template argument that stands for a module parameter
module_template_arg(param, new_name) ==
  [expression |-> [kind |-> "Identifier",
                   path |-> Spanned(<<Part(new_name)>>, param.span)],
   arg_name |-> IF param.default_value.some THEN Some(new_name) ELSE None]

\* lines 491-496 and 520-527: the parameters renamed, and both names bound
module_template_scope(module_path, module, sc) ==
  LET bind[i \in 0..Len(module.template_parameters)] ==
        IF i = 0 THEN sc
        ELSE Bind(mangle_template_parameter_name(module_path, module.name,
                                                 module.template_parameters[i].name),
                  LAMBDA new_name :
                    insert(insert(bind[i - 1], new_name, TemplateParam(new_name)),
                           module.template_parameters[i].name, TemplateParam(new_name)))
  IN bind[Len(module.template_parameters)]

\* lines 497-519 and 529-536: the module's own name pushed onto the module path
module_path_with(module_path, module) ==
  IF module.name # <<>>
  THEN Append(module_path,
              PathPart(module.name,
                       IF module.template_parameters = <<>> THEN None
                       ELSE Some([i \in 1..Len(module.template_parameters) |->
                                    module_template_arg(
                                      module.template_parameters[i],
                                      mangle_template_parameter_name(
                                        module_path, module.name,
                                        module.template_parameters[i].name))]),
                       None))
  ELSE module_path

\* lines 492-496: every parameter takes its mangled name
renamed_template_parameters(module_path, module) ==
  [i \in 1..Len(module.template_parameters) |->
     [module.template_parameters[i] EXCEPT
        !.name = mangle_template_parameter_name(module_path, module.name, @)]]

\* returns the module and the module path extended by the module's own name
module_template_parameters_to_absolute_path(module_path, module, sc, st) ==
  Bind(module_path_with(module_path, module), LAMBDA pushed :
  Bind(module_template_scope(module_path, module, sc), LAMBDA sc1 :
  Last(WalkSeq(LAMBDA param, s, t :
                 Last(WalkOpt(LAMBDA x, s2, t2 :
                                Call("expression_to_absolute_paths", <<x, pushed, s2, t2>>),
                              param.default_value, s, t), s,
                      LAMBDA r : [param EXCEPT !.default_value = r]),
               renamed_template_parameters(module_path, module), sc1, st), sc1, LAMBDA d :
    [module |-> [module EXCEPT !.template_parameters = d], module_path |-> pushed])))

(***************************************************************************)
(* Declaration walkers                                                     *)
(***************************************************************************)
struct_to_absolute_path(strct, module_path, sc, st) ==
  Bind(Call("struct_template_parameters_to_absolute_path", <<module_path, strct, sc, st>>),
       LAMBDA p :
  Last(IF Failed(p) THEN Skip(p.n.members, p)
       ELSE WalkSeq(LAMBDA x, s, t :
                      Last(Call("type_to_absolute_path", <<x.typ, module_path, s, t>>), s,
                           LAMBDA r : [x EXCEPT !.typ = r]),
                    p.n.members, p.sc, p.st), sc, LAMBDA m :
    [p.n EXCEPT !.members = m]))

decl_to_absolute_path(declaration, module_path, sc, st) ==
  Bind(Call("decl_template_parameters_to_absolute_path",
            <<module_path, declaration, sc, st>>), LAMBDA p :
  Bind(IF Failed(p) THEN Skip(p.n.initializer, p)
       ELSE WalkOpt(LAMBDA x, s, t :
                      Call("expression_to_absolute_paths", <<x, module_path, s, t>>),
                    p.n.initializer, p.sc, p.st), LAMBDA i :
  Last(IF Failed(i) THEN Skip(p.n.typ, i)
       ELSE WalkOpt(LAMBDA x, s, t : Call("type_to_absolute_path", <<x, module_path, s, t>>),
                    p.n.typ, p.sc, i.st), sc, LAMBDA y :
    [p.n EXCEPT !.initializer = i.n, !.typ = y])))

func_to_absolute_path(func, module_path, sc, st) ==
  Bind(Call("function_template_parameters_to_absolute_path",
            <<module_path, func, sc, st>>), LAMBDA p :
  Bind(IF Failed(p) THEN Skip(p.n.return_type, p)
       ELSE WalkOpt(LAMBDA x, s, t :
                      Last(Call("relative_path_to_absolute_path",
                                <<s, module_path, x.path, t>>), s,
                           LAMBDA q : [x EXCEPT !.path = q]),
                    p.n.return_type, p.sc, p.st), LAMBDA r :
  Bind(IF Failed(r) THEN Skip(p.n.parameters, r)
       ELSE WalkSeq(LAMBDA x, s, t :
                      Bind(Call("type_to_absolute_path", <<x.typ, module_path, s, t>>),
                           LAMBDA q :
                             Res([x EXCEPT !.typ = q.n],
                                 IF Failed(q) THEN s
                                 ELSE insert(s, x.name, FormalFunctionParameter),
                                 q.e, q.st)),
                    p.n.parameters, p.sc, r.st), LAMBDA a :
  Last(IF Failed(a) THEN Skip(p.n.body, a)
       ELSE Call("compound_statement_to_absolute_paths",
                 <<p.n.body, module_path, a.sc, a.st>>), sc, LAMBDA b :
    [p.n EXCEPT !.return_type = r.n, !.parameters = a.n, !.body = b]))))

const_assert_to_absolute_path(assrt, module_path, sc, st) ==
  Bind(Call("const_assert_template_parameters_to_absolute_path",
            <<module_path, assrt, sc, st>>), LAMBDA p :
  Last(IF Failed(p) THEN Skip(p.n.expression, p)
       ELSE Call("expression_to_absolute_paths",
                 <<p.n.expression, module_path, p.sc, p.st>>), sc, LAMBDA e :
    [p.n EXCEPT !.expression = e]))

alias_to_absolute_path(alias, module_path, sc, st) ==
  Bind(Call("alias_template_parameters_to_absolute_path",
            <<module_path, alias, sc, st>>), LAMBDA p :
  Last(IF Failed(p) THEN Skip(p.n.typ, p)
       ELSE Call("type_to_absolute_path", <<p.n.typ, module_path, p.sc, p.st>>), sc,
       LAMBDA y : [p.n EXCEPT !.typ = y]))

\* the match on the kind of a global or module member declaration
\* (lines 311-335 and 1130-1154): the function its arm calls
declaration_walker(decl) ==
  CASE decl.kind = "Void" -> "no_action"
    [] decl.kind = "Declaration" -> "decl_to_absolute_path"
    [] decl.kind = "Alias" -> "alias_to_absolute_path"
    [] decl.kind = "Struct" -> "struct_to_absolute_path"
    [] decl.kind = "Function" -> "func_to_absolute_path"
    [] decl.kind = "ConstAssert" -> "const_assert_to_absolute_path"
    [] decl.kind = "Module" -> "module_to_absolute_path"

(***************************************************************************)
(* Modules: update_module_scope, find_module_and_scope, extend, use        *)
(***************************************************************************)
\* ModuleMemberDeclaration::name / GlobalDeclaration::name (mew_parse)
name_of(decl) ==
  IF decl.kind \in {"Declaration", "Alias", "Struct", "Function", "Module"}
  THEN Some(decl.name) ELSE None

\* ModuleMemberDeclaration::template_parameters (mew_parse)
template_parameters_of(decl) ==
  IF decl.kind = "Void" THEN <<>> ELSE decl.template_parameters

\* lines 941-948: every named member is bound before any member is walked
index_members(members, module_path, sc) ==
  LET go[i \in 0..Len(members)] ==
        IF i = 0 THEN sc
        ELSE IF name_of(members[i]).some
             THEN insert(go[i - 1], members[i].name,
                         ModuleMemberDeclaration(module_path, members[i]))
             ELSE go[i - 1]
  IN go[Len(members)]

\* returns the module and the module path extended by the module's own name
update_module_scope(module_path, module, sc, st) ==
  Bind(Call("module_template_parameters_to_absolute_path", <<module_path, module, sc, st>>),
       LAMBDA t :
    IF Failed(t) THEN t
    ELSE Res(t.n, index_members(t.n.module.members, t.n.module_path, t.sc), NoErr, t.st))

\* lines 1031-1047: the alias that stands for one member of the extended module
extension_alias(member, path, module_path) ==
  [kind |-> "Alias",
   name |-> member.name,
   name_span |-> member.name_span,
   typ |-> [path |-> [path EXCEPT !.value = Append(@, Part(member.name))]],
   template_parameters |->
     [j \in 1..Len(template_parameters_of(member)) |->
        [template_parameters_of(member)[j] EXCEPT !.name =
           mangle_template_parameter_name(module_path, member.name, @)]]]

\* lines 1023-1058: one alias per named member of the extended module
extension_aliases(module, path, module_path) ==
  Bind(SelectSeq(module.members, LAMBDA m : name_of(m).some), LAMBDA named :
    [i \in 1..Len(named) |-> extension_alias(named[i], path, module_path)])

bind_aliases(aliases, module_path, sc) ==
  LET go[i \in 0..Len(aliases)] ==
        IF i = 0 THEN sc
        ELSE insert(go[i - 1], aliases[i].name,
                    ModuleMemberDeclaration(module_path, aliases[i]))
  IN go[Len(aliases)]

\* line 1021: the inline template arguments of the extension's path are dropped
without_inline_template_args(path) ==
  [path EXCEPT !.value = [i \in 1..Len(@) |-> [@[i] EXCEPT !.inline_template_args = None]]]

\* the call stack is finite: a chain of nested extensions deeper than
\* MaxExtendDepth exhausts it and the process aborts
add_extension_to_scope(extend, module_path, sc, st) ==
  IF st.depth >= MaxExtendDepth THEN Res(<<>>, sc, StackOverflow, st)
  ELSE
  Bind(Call("find_module_and_scope", <<sc, extend.path, [st EXCEPT !.depth = @ + 1]>>),
       LAMBDA f :
  Bind(IF Failed(f) THEN Skip(extend.path, f)
       ELSE Call("relative_path_to_absolute_path", <<sc, module_path, extend.path, f.st>>),
       LAMBDA x :
  Bind(IF Failed(x) THEN Skip(f.n, x)
       ELSE Call("module_to_absolute_path", <<f.n, x.n.value, f.sc, x.st>>), LAMBDA m :
  Bind(IF Failed(m) THEN Skip(extend.path, m)
       ELSE Call("relative_path_to_absolute_path", <<sc, module_path, extend.path, m.st>>),
       LAMBDA p :
    IF Failed(p) THEN Res(<<>>, sc, p.e, [p.st EXCEPT !.depth = st.depth])
    ELSE Bind(extension_aliases(m.n, without_inline_template_args(p.n), module_path),
              LAMBDA aliases :
                Res(aliases, bind_aliases(aliases, module_path, sc), NoErr,
                    [p.st EXCEPT !.depth = st.depth]))))))

\* the directives taken as they come, an extend directive expanded where it
\* stands
directives_in_textual_order(module_path, directives, members, sc, st) ==
  LET x[i \in 0..Len(directives)] ==
        IF i = 0 THEN Res([directives |-> <<>>, members |-> members], sc, NoErr, st)
        ELSE
          Bind(x[i - 1], LAMBDA prev :
            IF Failed(prev) THEN prev
            ELSE IF directives[i].kind = "Use"
            THEN Bind(Call("add_usage_to_scope",
                           <<directives[i].usage, module_path, prev.sc, prev.st>>),
                      LAMBDA r :
                   Res([prev.n EXCEPT !.directives =
                                        Append(@, [directives[i] EXCEPT !.usage = r.n])],
                       r.sc, r.e, r.st))
            ELSE
            Bind(Call("add_extension_to_scope",
                      <<directives[i], module_path, prev.sc, prev.st>>), LAMBDA a :
            Bind(IF Failed(a) THEN Skip(directives[i].path, a)
                 ELSE Call("relative_path_to_absolute_path",
                           <<a.sc, module_path, directives[i].path, a.st>>), LAMBDA r :
              Res([directives |->
                     IF Failed(r) THEN prev.n.directives
                     ELSE Append(prev.n.directives, [directives[i] EXCEPT !.path = r.n]),
                   members |-> prev.n.members \o a.n],
                  a.sc, r.e, r.st))))
  IN x[Len(directives)]

\* returns the pair (directives, members)
add_extensions_and_usages_to_scope(module_path, directives, members, sc, st) ==
  Bind(WalkSeq(LAMBDA d, s, t :
                 Rebuilt(Call("add_usage_to_scope", <<d.usage, module_path, s, t>>),
                      LAMBDA r : [d EXCEPT !.usage = r]),
               SelectSeq(directives, LAMBDA d : d.kind = "Use"), sc, st), LAMBDA u :
  Bind(SelectSeq(directives, LAMBDA d : d.kind = "Extend"), LAMBDA extend_dirs :
    \* each extension: its aliases are pushed to the members, then its path is
    \* rewritten and the directive pushed back
    LET x[i \in 0..Len(extend_dirs)] ==
          IF i = 0 THEN Res([directives |-> <<>>, members |-> members], u.sc, u.e, u.st)
          ELSE
            Bind(x[i - 1], LAMBDA prev :
              IF Failed(prev) THEN prev
              ELSE
              Bind(Call("add_extension_to_scope",
                        <<extend_dirs[i], module_path, prev.sc, prev.st>>), LAMBDA a :
              Bind(IF Failed(a) THEN Skip(extend_dirs[i].path, a)
                   ELSE Call("relative_path_to_absolute_path",
                             <<a.sc, module_path, extend_dirs[i].path, a.st>>), LAMBDA r :
                Res([directives |->
                       IF Failed(r) THEN prev.n.directives
                       ELSE Append(prev.n.directives, [extend_dirs[i] EXCEPT !.path = r.n]),
                     members |-> prev.n.members \o a.n],
                    a.sc, r.e, r.st))))
    IN Bind(x[Len(extend_dirs)], LAMBDA e :
         IF Failed(e) THEN e
         ELSE Res([e.n EXCEPT !.directives = @ \o u.n], e.sc, NoErr, e.st))))

find_module_and_scope(sc, path, st) ==
  IF path.value = <<>> THEN Res(None, sc, InvariantFailure, st)
  ELSE IF path.value[1].name \notin DOMAIN sc
  THEN Res(None, sc, SymbolNotFound(path.value, path.span), st)
  ELSE IF ~(sc[path.value[1].name].kind \in {"ModuleMemberDeclaration", "GlobalDeclaration"}
            /\ sc[path.value[1].name].decl.kind = "Module")
  THEN Res(None, sc, InvariantFailure, st)
  ELSE
    \* the loop labelled 'outer: descends one segment per iteration
    LET Descend[i \in 1..Len(path.value)] ==
          IF i = 1
          THEN Res([module |-> sc[path.value[1].name].decl, module_path |-> <<>>],
                   sc, NoErr, st)
          ELSE
            Bind(Descend[i - 1], LAMBDA prev :
              IF Failed(prev) THEN prev
              ELSE
              Bind(Call("update_module_scope",
                        <<prev.n.module_path, prev.n.module, prev.sc, prev.st>>), LAMBDA u :
              Bind(IF Failed(u) THEN Skip(<<>>, u)
                   ELSE Call("add_extensions_and_usages_to_scope",
                             <<u.n.module_path, u.n.module.directives, u.n.module.members,
                               u.sc, u.st>>), LAMBDA d :
                IF Failed(d) THEN Res(prev.n, d.sc, d.e, d.st)
                ELSE Bind(SelectSeq(d.n.members,
                                    LAMBDA m : m.kind = "Module"
                                               /\ m.name = path.value[i].name),
                          LAMBDA hits :
                            IF hits = <<>>
                            THEN Res(prev.n, d.sc,
                                     SymbolNotFound(path.value, path.span), d.st)
                            ELSE Res([module |-> hits[1],
                                      module_path |-> u.n.module_path],
                                     d.sc, NoErr, d.st)))))
    IN Rebuilt(Descend[Len(path.value)],
            LAMBDA found : found.module)

\* lines 303-309: the module's scope, its usages and its extensions;
\* returns the module and the module path extended by the module's own name
module_scope(module, module_path, sc, st) ==
  Bind(Call("update_module_scope", <<module_path, module, sc, st>>), LAMBDA u :
  Bind(IF Failed(u) THEN Skip([directives |-> u.n.module.directives,
                               members |-> u.n.module.members], u)
       ELSE Call("add_extensions_and_usages_to_scope",
                 <<u.n.module_path, u.n.module.directives, u.n.module.members,
                   u.sc, u.st>>), LAMBDA d :
    Res([module |-> [u.n.module EXCEPT !.directives = d.n.directives,
                                       !.members = d.n.members],
         module_path |-> u.n.module_path], d.sc, d.e, d.st)))

module_to_absolute_path(module, module_path, sc, st) ==
  Bind(Call("module_scope", <<module, module_path, sc, st>>), LAMBDA h :
  Last(IF Failed(h) THEN Skip(h.n.module.members, h)
       ELSE WalkSeq(LAMBDA x, s, t :
                      Call(declaration_walker(x), <<x, h.n.module_path, s, t>>),
                    h.n.module.members, h.sc, h.st), sc, LAMBDA m :
    [h.n.module EXCEPT !.members = m]))

(***************************************************************************)
(* Inline template arguments (lines 720-791)                               *)
(***************************************************************************)
\* mew_types::mangling::mangle_inline_arg_name: injective over its triple
mangle_inline_arg_name(module_path, current, name) ==
  <<"$">> \o join([i \in 1..Len(module_path) |-> replace_underscore(module_path[i].name)],
                  <<"_">>)
    \o <<"$">> \o join([i \in 1..Len(current) |-> replace_underscore(current[i].name)],
                       <<"_">>)
    \o <<"$">> \o replace_underscore(name)

\* lines 742-747: the name of the template parameter an inline member stands for
inline_arg_name(i, path, prefix, member) ==
  mangle_template_parameter_name(prefix \o SubSeq(path.value, 1, i - 1),
                                 path.value[i].name, member.name)

\* lines 748-752: the name the inline member is declared under
inline_name(module_path, i, path, member) ==
  mangle_inline_arg_name(module_path, SubSeq(path.value, 1, i), member.name)

\* lines 739-780: the members moved to the derived module, the named ones renamed
inline_members(module_path, i, path, members) ==
  [j \in 1..Len(members) |->
     IF name_of(members[j]).some
     THEN [members[j] EXCEPT !.name = inline_name(module_path, i, path, members[j])]
     ELSE members[j]]

\* lines 764-775: one template argument per named member
inline_template_arg(module_path, i, path, prefix, member) ==
  [expression |->
     [kind |-> "Identifier",
      path |-> Spanned(Append(module_path, Part(inline_name(module_path, i, path, member))),
                       member.name_span)],
   arg_name |-> Some(inline_arg_name(i, path, prefix, member))]

\* lines 760-761: both names of every named member are bound in the caller's scope
inline_scope(module_path, i, path, prefix, named, sc) ==
  LET bind[j \in 0..Len(named)] ==
        IF j = 0 THEN sc
        ELSE insert(insert(bind[j - 1],
                           inline_arg_name(i, path, prefix, named[j]),
                           TemplateParam(inline_name(module_path, i, path, named[j]))),
                    inline_name(module_path, i, path, named[j]),
                    Inline(Append(module_path,
                                  Part(inline_name(module_path, i, path, named[j])))))
  IN bind[Len(named)]

\* lines 720 and 764: the part's own template arguments, then the synthesized ones
inline_args_of(module_path, i, path, prefix, named) ==
  (IF path.value[i].template_args.some THEN path.value[i].template_args.v ELSE <<>>)
    \o [j \in 1..Len(named) |-> inline_template_arg(module_path, i, path, prefix, named[j])]

\* lines 722-729, 737 and 779
derived_module(module_path, directives, members) ==
  [kind |-> "Module",
   name |-> IF module_path = <<>> THEN <<>> ELSE module_path[Len(module_path)].name,
   name_span |-> 0,
   template_parameters |-> <<>>,
   directives |-> directives,
   members |-> members]

\* returns the part and its template arguments, the synthesized ones appended
expand_inline_template_args(module_path, i, path, prefix, inner_scope, sc, st) ==
  Bind(Call("add_extensions_and_usages_to_scope",
            <<module_path, path.value[i].inline_template_args.v.directives, <<>>,
              inner_scope, st>>), LAMBDA d :
    IF Failed(d)
    THEN Res([part |-> [path.value[i] EXCEPT
                          !.inline_template_args.v.directives = d.n.directives],
              args |-> <<>>], sc, d.e, d.st)
    ELSE
    Bind(SelectSeq(path.value[i].inline_template_args.v.members,
                   LAMBDA m : name_of(m).some), LAMBDA named :
    Bind(Call("module_to_absolute_path",
              <<derived_module(module_path, d.n.directives,
                               d.n.members \o inline_members(module_path, i, path,
                                                            path.value[i].inline_template_args.v.members)),
                module_path, d.sc, d.st>>), LAMBDA m :
      Res([part |-> [path.value[i] EXCEPT
                       !.inline_template_args =
                          Some(IF Failed(m) THEN [directives |-> <<>>, members |-> <<>>]
                               ELSE [directives |-> m.n.directives,
                                     members |-> m.n.members])],
           args |-> inline_args_of(module_path, i, path, prefix, named)],
          inline_scope(module_path, i, path, prefix, named, sc), m.e, m.st))))

\* the call table of the pass: every call of one resolver function by another
\* goes through it, by the callee's name
Call(f, a) ==
  CASE f = "template_args_to_absolute_paths" ->
       template_args_to_absolute_paths(a[1], a[2], a[3], a[4])
    [] f = "relative_path_to_absolute_path" ->
       relative_path_to_absolute_path(a[1], a[2], a[3], a[4])
    [] f = "type_to_absolute_path" ->
       type_to_absolute_path(a[1], a[2], a[3], a[4])
    [] f = "expression_to_absolute_paths" ->
       expression_to_absolute_paths(a[1], a[2], a[3], a[4])
    [] f = "add_usage_to_scope" ->
       add_usage_to_scope(a[1], a[2], a[3], a[4])
    [] f = "compound_statement_to_absolute_paths" ->
       compound_statement_to_absolute_paths(a[1], a[2], a[3], a[4])
    [] f = "clause_to_absolute_paths" ->
       clause_to_absolute_paths(a[1], a[2], a[3], a[4])
    [] f = "switch_clause_to_absolute_paths" ->
       switch_clause_to_absolute_paths(a[1], a[2], a[3], a[4])
    [] f = "statement_to_absolute_paths" ->
       statement_to_absolute_paths(a[1], a[2], a[3], a[4])
    [] f = "mangled_template_parameters" ->
       mangled_template_parameters(a[1], a[2], a[3], a[4], a[5])
    [] f = "function_template_parameters_to_absolute_path" ->
       function_template_parameters_to_absolute_path(a[1], a[2], a[3], a[4])
    [] f = "alias_template_parameters_to_absolute_path" ->
       alias_template_parameters_to_absolute_path(a[1], a[2], a[3], a[4])
    [] f = "decl_template_parameters_to_absolute_path" ->
       decl_template_parameters_to_absolute_path(a[1], a[2], a[3], a[4])
    [] f = "struct_template_parameters_to_absolute_path" ->
       struct_template_parameters_to_absolute_path(a[1], a[2], a[3], a[4])
    [] f = "const_assert_template_parameters_to_absolute_path" ->
       const_assert_template_parameters_to_absolute_path(a[1], a[2], a[3], a[4])
    [] f = "module_template_parameters_to_absolute_path" ->
       module_template_parameters_to_absolute_path(a[1], a[2], a[3], a[4])
    [] f = "struct_to_absolute_path" ->
       struct_to_absolute_path(a[1], a[2], a[3], a[4])
    [] f = "decl_to_absolute_path" ->
       decl_to_absolute_path(a[1], a[2], a[3], a[4])
    [] f = "func_to_absolute_path" ->
       func_to_absolute_path(a[1], a[2], a[3], a[4])
    [] f = "const_assert_to_absolute_path" ->
       const_assert_to_absolute_path(a[1], a[2], a[3], a[4])
    [] f = "alias_to_absolute_path" ->
       alias_to_absolute_path(a[1], a[2], a[3], a[4])
    [] f = "no_action" -> Res(a[1], a[3], NoErr, a[4])
    [] f = "update_module_scope" ->
       update_module_scope(a[1], a[2], a[3], a[4])
    [] f = "add_extension_to_scope" ->
       add_extension_to_scope(a[1], a[2], a[3], a[4])
    [] f = "add_extensions_and_usages_to_scope" ->
       add_extensions_and_usages_to_scope(a[1], a[2], a[3], a[4], a[5])
    [] f = "find_module_and_scope" ->
       find_module_and_scope(a[1], a[2], a[3])
    [] f = "module_scope" -> module_scope(a[1], a[2], a[3], a[4])
    [] f = "module_to_absolute_path" ->
       module_to_absolute_path(a[1], a[2], a[3], a[4])
    [] f = "expand_inline_template_args" ->
       expand_inline_template_args(a[1], a[2], a[3], a[4], a[5], a[6], a[7])

(***************************************************************************)
(* Translation units the pass is run on                                    *)
(*                                                                         *)
(*   mod A { fn f() {}  fn k<U>() -> U {} }          (the library module)  *)
(*   <directive>  const s = 0;  fn h<T>(x: i32) { <shape around a path> }  *)
(*                                                                         *)
(* with the last line at the root, in a module M, or in N::M.  The library *)
(* may also extend itself (mod A { extend A; .. }), extend the module M    *)
(* that extends it (mod A { extend M; .. }  mod M { extend A; .. }), or    *)
(* hold a nested module (mod A { ..  mod Q { fn y() {} } }).  The bare     *)
(* unit is  fn h(x: i32) { <body> }  alone, with builtin names only.       *)
(***************************************************************************)
nA == <<"A">>
nM == <<"M">>
nN == <<"N">>
nf == <<"f">>
ng == <<"g">>
nh == <<"h">>
nk == <<"k">>
nn == <<"n">>
ns == <<"s">>
nx == <<"x">>
ny == <<"y">>
nQ == <<"Q">>
nz == <<"z">>
nT == <<"T">>
nU == <<"U">>
i32 == <<"i", "3", "2">>

\* get_builtin_tokens / get_builtin_functions (mew_types::builtins)
BuiltinNames == {i32, <<"f", "3", "2">>, <<"a", "b", "s">>}

\* source spans of the path nodes of a unit
SpanOf == [directive |-> 1, param_type |-> 2, return_type |-> 3, ref |-> 4, base |-> 5,
           directive_arg |-> 6, library_return |-> 7, template_parameter |-> 8,
           library_directive |-> 9, let_type |-> 10,
           block_directive |-> 11, second_directive |-> 12,
           collection_item |-> 13, inline_member |-> 14, second_inline_member |-> 15]
SpanDirective == SpanOf.directive
SpanParamType == SpanOf.param_type
SpanReturnType == SpanOf.return_type
SpanRef == SpanOf.ref
SpanBase == SpanOf.base
SpanDirectiveArg == SpanOf.directive_arg
SpanLibReturn == SpanOf.library_return
SpanTemplateParam == SpanOf.template_parameter
SpanLibDirective == SpanOf.library_directive
SpanLetType == SpanOf.let_type
SpanBlockUse == SpanOf.block_directive
SpanSecondDirective == SpanOf.second_directive
SpanCollectionItem == SpanOf.collection_item

Path(names, span) == Spanned([i \in 1..Len(names) |-> Part(names[i])], span)
Identifier(names, span) == [kind |-> "Identifier", path |-> Path(names, span)]
Literal == [kind |-> "Literal"]
TypeExpression(names, span) == [path |-> Path(names, span)]
Compound(directives, statements) == [directives |-> directives, statements |-> statements]
Return(e) == [kind |-> "Return", expression |-> Some(e)]
Let(name, init, statements) ==
  [kind |-> "Declaration",
   declaration |-> [name |-> name, name_span |-> 0, typ |-> None,
                    initializer |-> Some(init), template_parameters |-> <<>>],
   statements |-> statements]
Clause(condition, body) == [condition |-> condition, body |-> body]
If(if_clause, else_if_clauses, else_clause) ==
  [kind |-> "If", if_clause |-> if_clause, else_if_clauses |-> else_if_clauses,
   else_clause |-> else_clause]
Switch(expression, clauses) ==
  [kind |-> "Switch", expression |-> expression, clauses |-> clauses]
Loop(body, continuing) == [kind |-> "Loop", body |-> body, continuing |-> continuing]
TemplateParameter(name) == [name |-> name, default_value |-> None, span |-> SpanTemplateParam]
Function(name, template_parameters, parameters, return_type, body) ==
  [kind |-> "Function", name |-> name, name_span |-> 0,
   template_parameters |-> template_parameters, parameters |-> parameters,
   return_type |-> return_type, body |-> body]
Const(name) ==
  [kind |-> "Declaration", name |-> name, name_span |-> 0, typ |-> None,
   initializer |-> Some(Literal), template_parameters |-> <<>>]
Module(name, directives, members) ==
  [kind |-> "Module", name |-> name, name_span |-> 0, template_parameters |-> <<>>,
   directives |-> directives, members |-> members]
UseItem(path, name, rename, template_args) ==
  [kind |-> "Use",
   usage |-> [path |-> path,
              content |-> [kind |-> "Item", name |-> name, rename |-> rename,
                           template_args |-> template_args,
                           inline_template_args |-> None]]]
UseCollection(path, uses) ==
  [kind |-> "Use",
   usage |-> [path |-> path, content |-> [kind |-> "Collection", uses |-> uses]]]
Extend(path) == [kind |-> "Extend", path |-> path]
\* the path with the template argument list `args` on its last segment
WithArgs(path, args) ==
  [path EXCEPT !.value[Len(path.value)].template_args = Some(args)]
TemplateArg(e) == [expression |-> e, arg_name |-> None]

Hosts == {"root", "module", "nested", "bare"}
Orders == {"before", "after"}
Directives == {"none", "use_rename", "use_plain", "use_args", "extend",
               "extend_then_use", "use_then_extend", "use_collection", "use_flat_collection",
               "extend_unbound", "extend_no_member", "extend_function",
               "extend_no_submember", "extend_submodule",
               "extend_const", "extend_builtin", "use_module_then_extend"}
\* extend z;  extend A::z;  extend A::f;  extend A::Q::z;
MissingTargets == {"extend_unbound", "extend_no_member", "extend_function",
                   "extend_no_submember"}
\* extend s;  extend i32;  use A::Q; extend Q;
TargetsNoModule == {"extend_const", "extend_builtin", "use_module_then_extend"}
\* the directives of a unit whose library has the nested module Q
SubmoduleDirectives == {"use_collection", "use_flat_collection", "extend_no_submember",
                        "extend_submodule", "use_module_then_extend"}
\* use A::{Q::y as g, f};  and  use A::{f};
CollectionDirectives == {"use_collection", "use_flat_collection"}
\* an extend directive and a use directive, in either textual order
BothDirectives == {"extend_then_use", "use_then_extend"}
Libraries == {"plain", "selfnamed", "selfextend", "mutual", "submodule"}
Refs == {<<ns>>, <<nT>>, <<nn>>, <<nx>>, <<ng>>, <<ng, ny>>, <<nf>>, <<nA, nf>>,
         <<nz>>, <<nz, ny>>, <<i32>>}
Shapes == {"call", "ret", "index_base", "index_operand", "binary", "let_init",
           "let_trailing", "loop", "loop_continuing", "continuing_statement",
           "break_if", "return_type", "param_type", "call_args", "call_empty_args",
           "then_template_parameter", "then_unbound", "let_shadow",
           "after_let", "after_compound", "after_if", "after_else", "after_switch",
           "after_while", "after_for", "template_arg", "inline_arg", "inline_args",
           "unary", "parenthesized", "named_component", "call_argument", "binary_left",
           "use_in_compound", "use_in_loop", "use_in_loop_continuing",
           "collection_in_compound", "collection_in_loop",
           "collection_in_loop_continuing"}
\* the shapes that put the reference after a statement that binds names
AfterShapes == {"after_let", "after_compound", "after_if", "after_else", "after_switch",
                "after_while", "after_for"}
\* the shapes that give the reference a template argument list
ArgShapes == {"call_empty_args", "call_args"}
\* the shapes that put the reference in a block after a use directive of the
\* block:  use A::k as g;  or  use A::{k as g};
BlockUseShapes == {"use_in_compound", "use_in_loop", "use_in_loop_continuing",
                   "collection_in_compound", "collection_in_loop",
                   "collection_in_loop_continuing"}
\* the shapes that put the reference inside a larger expression
OperandShapes == {"unary", "parenthesized", "named_component", "call_argument",
                  "binary_left", "binary", "index_base", "index_operand"}
\* the shapes that give the reference an inline block of template arguments
InlineShapes == {"inline_arg", "inline_args"}

Configs ==
  {c \in [host : Hosts, order : Orders, directive : Directives, library : Libraries,
          ref : Refs, shape : Shapes] :
     /\ c.host = "root" => c.order = "before"
     /\ c.library = "selfnamed" => c.directive = "extend"
     /\ c.host = "bare" => /\ c.order = "before" /\ c.directive = "none"
                           /\ c.library = "plain" /\ c.ref = <<i32>>
                           /\ c.shape \notin {"index_operand", "binary",
                                               "then_template_parameter", "then_unbound",
                                               "let_shadow", "template_arg"} \cup AfterShapes
                                               \cup InlineShapes
     /\ c.shape \in {"unary", "parenthesized", "named_component", "call_argument",
                     "binary_left"} => /\ c.directive \in {"none", "use_rename"}
                                       /\ c.library = "plain"
                                       /\ c.host # "bare"
     /\ c.shape \in BlockUseShapes => /\ c.directive = "none"
                                      /\ c.library = "plain"
                                      /\ c.host # "bare"
                                      /\ c.ref = <<ng>>
     /\ c.shape \in InlineShapes => /\ c.directive \in {"none", "use_rename"}
                                    /\ c.library = "plain"
                                    /\ c.ref \in {<<i32>>, <<ns>>, <<nA, nf>>, <<ng>>, <<nz>>}
     /\ c.shape \in {"let_shadow", "template_arg"} \cup AfterShapes =>
          /\ c.directive \in {"none", "use_rename"}
          /\ c.library = "plain"
     /\ c.directive \in BothDirectives => /\ c.host \in {"module", "nested"}
                                          /\ c.library = "plain"
                                          /\ c.shape \in {"call", "ret"}
     /\ c.directive \in SubmoduleDirectives <=> c.library = "submodule"
     /\ c.directive \in CollectionDirectives => c.host # "bare" /\ c.shape \in {"call", "ret"}
     /\ c.directive \in MissingTargets \cup TargetsNoModule \cup {"extend_submodule"} =>
          /\ c.host # "bare"
          /\ c.library \in {"plain", "submodule"}
          /\ c.shape = "call"
          /\ c.ref \in {<<ns>>, <<nf>>}
     /\ c.shape \in ArgShapes => /\ c.directive = "none" /\ c.library = "plain"
                                 /\ c.ref \in {<<i32>>, <<ns>>}
     /\ c.library = "selfextend" => c.directive = "none" /\ c.shape = "call" /\ c.ref = <<nf>>
     /\ c.library = "mutual" => /\ c.directive = "extend" /\ c.host = "module"
                                /\ c.shape = "call" /\ c.ref = <<nf>>}

\* the body of h: the path `ref` in the position `shape` names
Body(ref, shape) ==
  LET r == Identifier(ref, SpanRef)
      x == Identifier(<<nx>>, SpanBase)
      call == [kind |-> "FunctionCall", path |-> Path(ref, SpanRef), arguments |-> <<>>]
      let_n == Let(nn, Literal, <<>>)
      void == [kind |-> "Void"]
      continuing(statements, break_if) ==
        Some([body |-> Compound(<<>>, statements), break_if |-> break_if])
      \* { use A::k as g; let n = 0; let x = 0; }
      block == Compound(<<UseItem(Path(<<nA>>, SpanBlockUse), nk, Some(ng), None).usage>>,
                        <<let_n, Let(nx, Literal, <<>>)>>)
      empty == Compound(<<>>, <<>>)
      \* the path with the inline block `{ members }` among the template arguments
      \* of its last segment
      WithInline(path, members) ==
        [path EXCEPT !.value[Len(path.value)].inline_template_args =
           Some([directives |-> <<>>, members |-> members])]
      \* const name = 0;  as a member of an inline block
      InlineConst(name, span) == [Const(name) EXCEPT !.name_span = span]
      ConstAssert ==
        [kind |-> "ConstAssert", expression |-> Literal, template_parameters |-> <<>>]
      \* { use A::k as g; ref(); }  or  { use A::{k as g}; ref(); }
      uses == IF shape \in {"use_in_compound", "use_in_loop", "use_in_loop_continuing"}
              THEN Compound(<<UseItem(Path(<<nA>>, SpanBlockUse), nk, Some(ng), None).usage>>,
                            <<call>>)
              ELSE Compound(<<UseCollection(
                                Path(<<nA>>, SpanBlockUse),
                                <<UseItem(Path(<<>>, SpanCollectionItem), nk, Some(ng),
                                          None).usage>>).usage>>,
                            <<call>>)
  IN CASE shape = "call" -> <<call>>
       [] shape = "call_args" ->
            <<[call EXCEPT !.path =
                 WithArgs(@, <<TemplateArg(Identifier(<<i32>>, SpanBase))>>)]>>
       [] shape = "call_empty_args" -> <<[call EXCEPT !.path = WithArgs(@, <<>>)]>>
       [] shape = "then_template_parameter" ->
            <<call, Return(Identifier(<<nT>>, SpanBase))>>
       [] shape = "let_shadow" ->
            \* let ref: ref = ref; return ref;  with the first name of ref declared
            <<[Let(ref[1], r, <<Return(Identifier(ref, SpanBase))>>)
                 EXCEPT !.declaration.typ = Some(TypeExpression(ref, SpanLetType))]>>
       [] shape = "after_let" -> <<let_n, call>>
       [] shape = "after_compound" -> <<[kind |-> "Compound", body |-> block], call>>
       [] shape = "after_if" -> <<If(Clause(Literal, block), <<>>, None), call>>
       [] shape = "after_else" ->
            <<If(Clause(Literal, empty), <<Clause(Literal, block)>>, Some(block)), call>>
       [] shape = "after_switch" ->
            <<Switch(Literal, <<[case_selectors |-> <<[kind |-> "Default"]>>,
                                 body |-> block]>>), call>>
       [] shape = "after_while" ->
            <<[kind |-> "While", condition |-> Literal, body |-> block], call>>
       [] shape = "after_for" ->
            <<[kind |-> "For", initializer |-> Some(let_n), condition |-> None,
               update |-> None, body |-> block], call>>
       [] shape = "template_arg" ->
            \* i32<ref>();
            <<[kind |-> "FunctionCall", arguments |-> <<>>,
               path |-> WithArgs(Path(<<i32>>, SpanBase), <<TemplateArg(r)>>)]>>
       [] shape = "inline_arg" ->
            \* ref<{ const y = 0; }>();
            <<[call EXCEPT !.path = WithInline(@, <<InlineConst(ny, SpanOf.inline_member)>>)]>>
       [] shape = "inline_args" ->
            \* ref<i32, { const y = 0; const_assert 0; const z = 0; }>();
            <<[call EXCEPT !.path =
                 WithInline(WithArgs(@, <<TemplateArg(Identifier(<<i32>>, SpanBase))>>),
                            <<InlineConst(ny, SpanOf.inline_member), ConstAssert,
                              InlineConst(nz, SpanOf.second_inline_member)>>)]>>
       [] shape = "then_unbound" -> <<call, Return(Identifier(<<nz>>, SpanBase))>>
       [] shape = "ret" -> <<Return(r)>>
       [] shape = "index_base" ->
            <<Return([kind |-> "Indexing", base |-> r, index |-> Literal])>>
       [] shape = "index_operand" ->
            <<Return([kind |-> "Indexing", base |-> x, index |-> r])>>
       [] shape = "binary" ->
            <<Return([kind |-> "Binary", left |-> x, right |-> r])>>
       [] shape \in {"use_in_compound", "collection_in_compound"} ->
            <<[kind |-> "Compound", body |-> uses]>>
       [] shape \in {"use_in_loop", "collection_in_loop"} -> <<Loop(uses, None)>>
       [] shape \in {"use_in_loop_continuing", "collection_in_loop_continuing"} ->
            <<Loop(uses, continuing(<<void>>, None))>>
       [] shape = "binary_left" ->
            <<Return([kind |-> "Binary", left |-> r, right |-> x])>>
       [] shape = "unary" -> <<Return([kind |-> "Unary", operand |-> r])>>
       [] shape = "parenthesized" ->
            <<Return([kind |-> "Parenthesized", expression |-> r])>>
       [] shape = "named_component" ->
            <<Return([kind |-> "NamedComponent", base |-> r])>>
       [] shape = "call_argument" ->
            \* return i32(ref);
            <<Return([kind |-> "FunctionCall", path |-> Path(<<i32>>, SpanBase),
                      arguments |-> <<r>>])>>
       [] shape = "let_init" -> <<Let(nn, r, <<>>)>>
       [] shape = "let_trailing" -> <<Let(nn, Literal, <<Return(r)>>)>>
       [] shape = "loop" -> <<Loop(Compound(<<>>, <<let_n, call>>), None)>>
       [] shape = "loop_continuing" ->
            <<Loop(Compound(<<>>, <<let_n, call>>), continuing(<<void>>, None))>>
       [] shape = "continuing_statement" ->
            <<Loop(Compound(<<>>, <<let_n>>), continuing(<<call>>, None))>>
       [] shape = "break_if" ->
            <<Loop(Compound(<<>>, <<let_n>>), continuing(<<void>>, Some(r)))>>
       [] OTHER -> <<>>

Host(c) ==
  Function(nh, IF c.host = "bare" THEN <<>> ELSE <<TemplateParameter(nT)>>,
           <<[name |-> nx,
              typ |-> TypeExpression(IF c.shape = "param_type" THEN c.ref ELSE <<i32>>,
                                     IF c.shape = "param_type" THEN SpanRef
                                     ELSE SpanParamType)]>>,
           IF c.shape = "return_type" THEN Some(TypeExpression(c.ref, SpanRef)) ELSE None,
           Compound(<<>>, Body(c.ref, c.shape)))

Library(c) ==
  Module(nA,
         CASE c.library = "selfextend" -> <<Extend(Path(<<nA>>, SpanLibDirective))>>
           [] c.library = "mutual" -> <<Extend(Path(<<nM>>, SpanLibDirective))>>
           [] OTHER -> <<>>,
         <<Function(IF c.library = "selfnamed" THEN nA ELSE nf, <<>>, <<>>, None,
                    Compound(<<>>, <<>>)),
           Function(nk, <<TemplateParameter(nU)>>, <<>>,
                    Some(TypeExpression(<<nU>>, SpanLibReturn)), Compound(<<>>, <<>>))>>
           \o IF c.library = "submodule"
              THEN <<Module(nQ, <<>>, <<Function(ny, <<>>, <<>>, None, Compound(<<>>, <<>>))>>)>>
              ELSE <<>>)

DirectivesOf(c) ==
  CASE c.directive = "none" -> <<>>
    [] c.directive = "use_rename" ->
         <<UseItem(Path(<<nA>>, SpanDirective), nf, Some(ng), None)>>
    [] c.directive = "use_plain" ->
         <<UseItem(Path(<<nA>>, SpanDirective), nf, None, None)>>
    [] c.directive = "use_args" ->
         <<UseItem(Path(<<nA>>, SpanDirective), nk, Some(ng),
                   Some(<<[expression |-> Identifier(<<ns>>, SpanDirectiveArg),
                           arg_name |-> None]>>))>>
    [] c.directive = "extend" -> <<Extend(Path(<<nA>>, SpanDirective))>>
    [] c.directive = "use_collection" ->
         <<UseCollection(Path(<<nA>>, SpanDirective),
                         <<UseItem(Path(<<nQ>>, SpanSecondDirective), ny, Some(ng), None).usage,
                           UseItem(Path(<<>>, SpanCollectionItem), nf, None, None).usage>>)>>
    [] c.directive = "use_flat_collection" ->
         <<UseCollection(Path(<<nA>>, SpanDirective),
                         <<UseItem(Path(<<>>, SpanCollectionItem), nf, None, None).usage>>)>>
    [] c.directive = "extend_unbound" -> <<Extend(Path(<<nz>>, SpanDirective))>>
    [] c.directive = "extend_no_member" -> <<Extend(Path(<<nA, nz>>, SpanDirective))>>
    [] c.directive = "extend_function" -> <<Extend(Path(<<nA, nf>>, SpanDirective))>>
    [] c.directive = "extend_no_submember" ->
         <<Extend(Path(<<nA, nQ, nz>>, SpanDirective))>>
    [] c.directive = "extend_submodule" -> <<Extend(Path(<<nA, nQ>>, SpanDirective))>>
    [] c.directive = "extend_const" -> <<Extend(Path(<<ns>>, SpanDirective))>>
    [] c.directive = "extend_builtin" -> <<Extend(Path(<<i32>>, SpanDirective))>>
    [] c.directive = "use_module_then_extend" ->
         <<UseItem(Path(<<nA>>, SpanSecondDirective), nQ, None, None),
           Extend(Path(<<nQ>>, SpanDirective))>>
    [] c.directive = "extend_then_use" ->
         <<Extend(Path(<<nA>>, SpanDirective)),
           UseItem(Path(<<nA>>, SpanSecondDirective), nk, Some(ng), None)>>
    [] c.directive = "use_then_extend" ->
         <<UseItem(Path(<<nA>>, SpanSecondDirective), nk, Some(ng), None),
           Extend(Path(<<nA>>, SpanDirective))>>

MembersOf(c) ==
  IF c.order = "before" THEN <<Const(ns), Host(c)>> ELSE <<Host(c), Const(ns)>>

Unit(c) ==
  CASE c.host = "bare" -> [global_directives |-> <<>>, global_declarations |-> <<Host(c)>>]
    [] c.host = "root" ->
         [global_directives |-> DirectivesOf(c),
          global_declarations |-> <<Library(c)>> \o MembersOf(c)]
    [] c.host = "module" ->
         [global_directives |-> <<>>,
          global_declarations |-> <<Library(c), Module(nM, DirectivesOf(c), MembersOf(c))>>]
    [] c.host = "nested" ->
         [global_directives |-> <<>>,
          global_declarations |->
            <<Library(c), Module(nN, <<>>, <<Module(nM, DirectivesOf(c), MembersOf(c))>>)>>]

\* the absolute path of the container of h
HostPath(c) ==
  CASE c.host \in {"root", "bare"} -> <<>>
    [] c.host = "module" -> <<nM>>
    [] c.host = "nested" -> <<nN, nM>>

(***************************************************************************)
(* translation_unit_to_absolute_path, one step per statement or iteration  *)
(***************************************************************************)
MaxRuns == 2

Pending == [kind |-> "pending"]
Ok == [kind |-> "Ok"]
St == [trace |-> trace, depth |-> 0]
passVars == <<tu, input, scope, pc, idx, modules, other_directives, extend_directives,
              result, trace, run, first_output, given>>
mangleVars == <<ma, mb, mout>>

Fail(e) == /\ result' = e
           /\ pc' = "done"

\* a root scope that starts empty instead of with the builtins
root_scope_without_builtins(unit) ==
  LET decls == unit.global_declarations
      go[i \in 0..Len(decls)] ==
        IF i = 0 THEN EmptyScope
        ELSE IF name_of(decls[i]).some
             THEN insert(go[i - 1], decls[i].name, GlobalDeclaration(decls[i]))
             ELSE go[i - 1]
  IN go[Len(decls)]

\* lines 1066-1092: builtins, then every named global declaration
root_scope(unit) ==
  LET builtins == [x \in BuiltinNames |-> BuiltIn]
      decls == unit.global_declarations
      go[i \in 0..Len(decls)] ==
        IF i = 0 THEN builtins
        ELSE IF name_of(decls[i]).some
             THEN insert(go[i - 1], decls[i].name, GlobalDeclaration(decls[i]))
             ELSE go[i - 1]
  IN go[Len(decls)]

IndexGlobals ==
  /\ pc = "start"
  /\ scope' = root_scope(tu)
  /\ pc' = "directives"
  /\ idx' = 1
  /\ UNCHANGED <<modules, tu, input, other_directives, extend_directives, result, trace, run,
                 first_output, given, mangleVars>>

\* lines 1094-1106: one iteration of the drain of the global directives
GlobalDirectiveStep ==
  /\ pc = "directives"
  /\ idx <= Len(tu.global_directives)
  /\ IF tu.global_directives[idx].kind = "Use"
     THEN \E r \in {Call("add_usage_to_scope",
                          <<tu.global_directives[idx].usage, <<>>, scope, St>>)} :
          /\ trace' = r.st.trace
          /\ IF Failed(r)
             THEN /\ Fail(r.e)
                  /\ tu' = [tu EXCEPT !.global_directives = <<>>]
                  /\ UNCHANGED <<scope, idx, other_directives>>
             ELSE /\ scope' = r.sc
                  /\ other_directives' =
                       Append(other_directives,
                              [tu.global_directives[idx] EXCEPT !.usage = r.n])
                  /\ idx' = idx + 1
                  /\ UNCHANGED <<tu, pc, result>>
          /\ UNCHANGED extend_directives
     ELSE /\ extend_directives' = Append(extend_directives, tu.global_directives[idx])
          /\ idx' = idx + 1
          /\ UNCHANGED <<tu, scope, pc, other_directives, result, trace>>
  /\ UNCHANGED <<modules, input, run, first_output, given, mangleVars>>

\* lines 1107-1109
AppendOtherDirectives ==
  /\ pc = "directives"
  /\ idx > Len(tu.global_directives)
  /\ tu' = [tu EXCEPT !.global_directives = other_directives]
  /\ other_directives' = <<>>
  /\ pc' = IF extend_directives = <<>> THEN "declarations" ELSE "extends"
  /\ idx' = 1
  /\ UNCHANGED <<modules, input, scope, extend_directives, result, trace, run, first_output,
                 given, mangleVars>>

\* lines 1111-1128: one iteration of the loop over the extend directives
GlobalExtendStep ==
  /\ pc = "extends"
  /\ \E a \in {Call("add_extension_to_scope",
                     <<extend_directives[idx], <<>>, scope, St>>)} :
     \E r \in {IF Failed(a) THEN Skip(extend_directives[idx].path, a)
               ELSE Call("relative_path_to_absolute_path",
                         <<a.sc, <<>>, extend_directives[idx].path, a.st>>)} :
       /\ trace' = r.st.trace
       /\ IF Failed(a)
          THEN /\ Fail(a.e)
               /\ UNCHANGED <<tu, scope, idx>>
          ELSE /\ scope' = a.sc
               /\ IF Failed(r)
                  THEN /\ Fail(r.e)
                       /\ tu' = [tu EXCEPT !.global_declarations = @ \o a.n]
                       /\ UNCHANGED idx
                  ELSE /\ tu' = [tu EXCEPT
                                   !.global_declarations = @ \o a.n,
                                   !.global_directives =
                                      Append(@, [extend_directives[idx] EXCEPT
                                                   !.path = r.n])]
                       /\ IF idx = Len(extend_directives)
                          THEN pc' = "declarations" /\ idx' = 1
                          ELSE pc' = pc /\ idx' = idx + 1
                       /\ UNCHANGED result
  /\ UNCHANGED <<modules, input, other_directives, extend_directives, run, first_output, given,
                 mangleVars>>

\* the declaration an index path leads to, one index per module entered
RECURSIVE member_at(_, _)
member_at(decls, at) ==
  IF Len(at) = 1 THEN decls[at[1]] ELSE member_at(decls[at[1]].members, Tail(at))

\* the declarations, the one at the index path replaced (the tree is mutated
\* in place)
RECURSIVE put_member(_, _, _)
put_member(decls, at, decl) ==
  [decls EXCEPT ![at[1]] =
     IF Len(at) = 1 THEN decl
     ELSE [decls[at[1]] EXCEPT !.members = put_member(decls[at[1]].members, Tail(at), decl)]]

\* the loop over declarations the pass is in: that of the innermost module it
\* has entered, or that of the translation unit
InModule == modules # <<>>
Top == modules[Len(modules)]
At == IF InModule THEN Top.at ELSE <<>>
ModulePath == IF InModule THEN Top.module_path ELSE <<>>
Scope == IF InModule THEN Top.scope ELSE scope
Idx == IF InModule THEN Top.idx ELSE idx
Declarations ==
  IF InModule THEN member_at(tu.global_declarations, Top.at).members
  ELSE tu.global_declarations

\* the loop moves on to its next declaration
NextDeclaration(loops) ==
  IF loops = <<>> THEN idx' = idx + 1 /\ modules' = loops
  ELSE modules' = [loops EXCEPT ![Len(loops)].idx = @ + 1] /\ UNCHANGED idx

\* lines 311-335 and 1130-1154: one iteration of the loop over the
\* declarations, for a declaration that is no module
DeclarationStep ==
  /\ pc = "declarations"
  /\ Idx <= Len(Declarations)
  /\ Declarations[Idx].kind # "Module"
  /\ \E r \in {Call(declaration_walker(Declarations[Idx]),
                     <<Declarations[Idx], ModulePath, Scope, St>>)} :
     /\ tu' = [tu EXCEPT !.global_declarations = put_member(@, Append(At, Idx), r.n)]
     /\ trace' = r.st.trace
     /\ IF Failed(r) THEN Fail(r.e) /\ UNCHANGED <<idx, modules>>
        ELSE NextDeclaration(modules) /\ UNCHANGED <<pc, result>>
  /\ UNCHANGED <<input, scope, other_directives, extend_directives, run, first_output,
                 given, mangleVars>>

\* lines 298-309: the iteration meets a module and module_to_absolute_path is
\* called on it, up to the loop over its members
EnterModule ==
  /\ pc = "declarations"
  /\ Idx <= Len(Declarations)
  /\ Declarations[Idx].kind = "Module"
  /\ \E h \in {Call("module_scope", <<Declarations[Idx], ModulePath, Scope, St>>)} :
     /\ tu' = [tu EXCEPT !.global_declarations =
                            put_member(@, Append(At, Idx), h.n.module)]
     /\ trace' = h.st.trace
     /\ IF Failed(h) THEN Fail(h.e) /\ UNCHANGED modules
        ELSE /\ modules' = Append(modules, [at |-> Append(At, Idx),
                                            module_path |-> h.n.module_path,
                                            scope |-> h.sc, idx |-> 1])
             /\ UNCHANGED <<pc, result>>
  /\ UNCHANGED <<input, scope, idx, other_directives, extend_directives, run,
                 first_output, given, mangleVars>>

\* line 336: module_to_absolute_path returns Ok to the loop that called it
LeaveModule ==
  /\ pc = "declarations"
  /\ InModule
  /\ Idx > Len(Declarations)
  /\ NextDeclaration(SubSeq(modules, 1, Len(modules) - 1))
  /\ UNCHANGED <<tu, input, scope, pc, other_directives, extend_directives, result,
                 trace, run, first_output, given, mangleVars>>

\* line 1156
ReturnOk ==
  /\ pc = "declarations"
  /\ ~InModule
  /\ idx > Len(tu.global_declarations)
  /\ result' = Ok
  /\ pc' = "done"
  /\ UNCHANGED <<tu, input, scope, idx, modules, other_directives, extend_directives,
                 trace, run, first_output, given, mangleVars>>

\* resolve_mut is applied to the tree a successful run left behind
ResolveAgain ==
  /\ pc = "done"
  /\ result = Ok
  /\ run < MaxRuns
  /\ run' = run + 1
  /\ first_output' = IF run = 1 THEN Some(tu) ELSE first_output
  /\ input' = tu
  /\ scope' = EmptyScope
  /\ pc' = "start"
  /\ idx' = 0
  /\ modules' = <<>>
  /\ other_directives' = <<>>
  /\ extend_directives' = <<>>
  /\ result' = Pending
  /\ trace' = <<>>
  /\ UNCHANGED <<tu, given, mangleVars>>

Init ==
  /\ given \in Configs
  /\ tu = Unit(given)
  /\ input = tu
  /\ scope = EmptyScope
  /\ pc = "start"
  /\ idx = 0
  /\ modules = <<>>
  /\ other_directives = <<>>
  /\ extend_directives = <<>>
  /\ result = Pending
  /\ trace = <<>>
  /\ run = 1
  /\ first_output = None
  /\ ma = None /\ mb = None /\ mout = None

Next ==
  \/ IndexGlobals
  \/ GlobalDirectiveStep
  \/ AppendOtherDirectives
  \/ GlobalExtendStep
  \/ DeclarationStep
  \/ EnterModule
  \/ LeaveModule
  \/ ReturnOk
  \/ ResolveAgain

Spec == Init /\ [][Next]_vars

(***************************************************************************)
(* mangle_template_parameter_name applied to two triples                   *)
(***************************************************************************)
MaxIdentLen == 2
MaxModulePathLen == 1

\* identifiers over the letter a and the underscore, a lone underscore and a
\* leading double underscore excluded (they are no WGSL identifiers)
Identifiers ==
  {s \in UNION {[1..n -> {"a", "_"}] : n \in 1..MaxIdentLen} :
     /\ s # <<"_">>
     /\ ~(Len(s) >= 2 /\ s[1] = "_" /\ s[2] = "_")}

ModulePaths ==
  UNION {[1..n -> {Part(i) : i \in Identifiers}] : n \in 0..MaxModulePathLen}

Triples ==
  [module_path : ModulePaths, containing_name : Identifiers, old_arg_name : Identifiers]

Idle == [kind |-> "idle"]

InitMangle ==
  /\ ma \in {Some(t) : t \in Triples}
  /\ mb \in {Some(t) : t \in Triples}
  /\ mout = None
  /\ tu = Idle /\ input = Idle /\ scope = EmptyScope /\ pc = "mangle" /\ idx = 0
  /\ modules = <<>>
  /\ other_directives = <<>> /\ extend_directives = <<>> /\ result = Pending
  /\ trace = <<>> /\ run = 1 /\ first_output = None /\ given = Idle

MangleBoth ==
  /\ pc = "mangle"
  /\ mout = None
  /\ mout' = Some(<<mangle_template_parameter_name(ma.v.module_path, ma.v.containing_name,
                                                     ma.v.old_arg_name),
                    mangle_template_parameter_name(mb.v.module_path, mb.v.containing_name,
                                                     mb.v.old_arg_name)>>)
  /\ UNCHANGED <<ma, mb, passVars>>

NextMangle == MangleBoth

SpecMangle == InitMangle /\ [][NextMangle]_vars

(***************************************************************************)
(* Observations of a tree: the paths it holds                              *)
(***************************************************************************)
RECURSIVE PathsOfExpression(_)
RECURSIVE PathsOfStatement(_)
RECURSIVE LocalsOfStatement(_)
RECURSIVE OccurrencesOfDeclaration(_)

OverSeq(F(_), seq) == UNION {F(seq[i]) : i \in DOMAIN seq}
OverOpt(F(_), opt) == IF opt.some THEN F(opt.v) ELSE {}

\* a path, and the paths of the expressions among its template arguments
PathsOfPath(path) ==
  {path} \cup
  OverSeq(LAMBDA part :
            OverOpt(LAMBDA args : OverSeq(LAMBDA arg : PathsOfExpression(arg.expression),
                                          args),
                    part.template_args),
          path.value)

PathsOfExpression(e) ==
  CASE e.kind = "Literal" -> {}
    [] e.kind = "Parenthesized" -> PathsOfExpression(e.expression)
    [] e.kind = "NamedComponent" -> PathsOfExpression(e.base)
    [] e.kind = "Indexing" -> PathsOfExpression(e.base) \cup PathsOfExpression(e.index)
    [] e.kind = "Unary" -> PathsOfExpression(e.operand)
    [] e.kind = "Binary" -> PathsOfExpression(e.left) \cup PathsOfExpression(e.right)
    [] e.kind = "FunctionCall" ->
         PathsOfPath(e.path) \cup OverSeq(PathsOfExpression, e.arguments)
    [] e.kind = "Identifier" -> PathsOfPath(e.path)
    [] e.kind = "Type" -> PathsOfPath(e.typ.path)

PathsOfType(typ) == PathsOfPath(typ.path)

\* the expressions among the template arguments of the use directives
PathsOfUses(directives) ==
  OverSeq(LAMBDA d :
            IF d.kind = "Use" /\ d.usage.content.kind = "Item"
            THEN OverOpt(LAMBDA args : OverSeq(LAMBDA arg : PathsOfExpression(arg.expression),
                                               args),
                         d.usage.content.template_args)
            ELSE {},
          directives)

PathsOfCompound(c) == OverSeq(PathsOfStatement, c.statements)

PathsOfStatement(s) ==
  CASE s.kind \in {"Void", "Break", "Continue", "Discard"} -> {}
    [] s.kind = "Compound" -> PathsOfCompound(s.body)
    [] s.kind = "Assignment" -> PathsOfExpression(s.lhs) \cup PathsOfExpression(s.rhs)
    [] s.kind \in {"Increment", "Decrement", "ConstAssert"} -> PathsOfExpression(s.expression)
    [] s.kind = "While" -> PathsOfExpression(s.condition) \cup PathsOfCompound(s.body)
    [] s.kind = "If" ->
         OverSeq(LAMBDA c : PathsOfExpression(c.condition) \cup PathsOfCompound(c.body),
                 <<s.if_clause>> \o s.else_if_clauses)
           \cup OverOpt(PathsOfCompound, s.else_clause)
    [] s.kind = "Switch" ->
         PathsOfExpression(s.expression)
           \cup OverSeq(LAMBDA c :
                          OverSeq(LAMBDA x : IF x.kind = "Default" THEN {}
                                             ELSE PathsOfExpression(x.expression),
                                  c.case_selectors)
                            \cup PathsOfCompound(c.body),
                        s.clauses)
    [] s.kind = "For" ->
         OverOpt(PathsOfStatement, s.initializer)
           \cup OverOpt(PathsOfExpression, s.condition)
           \cup OverOpt(PathsOfStatement, s.update)
           \cup PathsOfCompound(s.body)
    [] s.kind = "Loop" ->
         PathsOfCompound(s.body)
           \cup OverOpt(LAMBDA cont : PathsOfCompound(cont.body)
                                        \cup OverOpt(PathsOfExpression, cont.break_if),
                        s.continuing)
    [] s.kind = "Return" -> OverOpt(PathsOfExpression, s.expression)
    [] s.kind = "FunctionCall" ->
         PathsOfPath(s.path) \cup OverSeq(PathsOfExpression, s.arguments)
    [] s.kind = "Declaration" ->
         OverOpt(PathsOfExpression, s.declaration.initializer)
           \cup OverOpt(PathsOfType, s.declaration.typ)
           \cup OverSeq(PathsOfStatement, s.statements)

\* the names the declaration statements of a statement declare
LocalsOfStatement(s) ==
  CASE s.kind = "Declaration" ->
         {s.declaration.name} \cup OverSeq(LocalsOfStatement, s.statements)
    [] s.kind = "Loop" ->
         OverSeq(LocalsOfStatement, s.body.statements)
           \cup OverOpt(LAMBDA cont : OverSeq(LocalsOfStatement, cont.body.statements),
                        s.continuing)
    [] s.kind \in {"Compound", "While"} -> OverSeq(LocalsOfStatement, s.body.statements)
    [] s.kind = "If" ->
         OverSeq(LAMBDA c : OverSeq(LocalsOfStatement, c.body.statements),
                 <<s.if_clause>> \o s.else_if_clauses)
           \cup OverOpt(LAMBDA c : OverSeq(LocalsOfStatement, c.statements), s.else_clause)
    [] s.kind = "Switch" ->
         OverSeq(LAMBDA c : OverSeq(LocalsOfStatement, c.body.statements), s.clauses)
    [] s.kind = "For" ->
         OverOpt(LocalsOfStatement, s.initializer)
           \cup OverSeq(LocalsOfStatement, s.body.statements)
    [] OTHER -> {}

TemplateParameterNames(decl) ==
  {template_parameters_of(decl)[i].name : i \in DOMAIN template_parameters_of(decl)}

\* every path of a declaration, with the names its declaration binds locally
OccurrencesOfDeclaration(d) ==
  CASE d.kind = "Function" ->
         {[path |-> p,
           local |-> TemplateParameterNames(d)
                       \cup {d.parameters[i].name : i \in DOMAIN d.parameters}
                       \cup OverSeq(LocalsOfStatement, d.body.statements)] :
            p \in OverOpt(PathsOfType, d.return_type)
                    \cup OverSeq(LAMBDA x : PathsOfType(x.typ), d.parameters)
                    \cup PathsOfCompound(d.body)}
    [] d.kind = "Declaration" ->
         {[path |-> p, local |-> TemplateParameterNames(d)] :
            p \in OverOpt(PathsOfExpression, d.initializer) \cup OverOpt(PathsOfType, d.typ)}
    [] d.kind = "Alias" ->
         {[path |-> p, local |-> TemplateParameterNames(d)] : p \in PathsOfType(d.typ)}
    [] d.kind = "Module" ->
         {[path |-> p, local |-> {}] : p \in PathsOfUses(d.directives)}
           \cup OverSeq(OccurrencesOfDeclaration, d.members)
    [] OTHER -> {}

\* the identifier, function-call and type paths of a translation unit
Occurrences(unit) ==
  {[path |-> p, local |-> {}] : p \in PathsOfUses(unit.global_directives)}
    \cup OverSeq(OccurrencesOfDeclaration, unit.global_declarations)

\* the path the unit was built around, as the tree holds it now
TheRef == {o.path : o \in {x \in Occurrences(tu) : x.path.span = SpanRef}}

RootNames(unit) ==
  {unit.global_declarations[i].name :
     i \in {j \in DOMAIN unit.global_declarations : name_of(unit.global_declarations[j]).some}}

\* the first run of resolve_mut has returned
Returned == pc = "done" /\ run = 1
ReturnedOk == Returned /\ result = Ok

\* the reference stands where the walkers of statements and expressions reach it
Walked(c) == c.shape \notin {"index_operand", "continuing_statement"}

RECURSIVE ContainerOf(_, _)
\* the member list of the module at `names` below the root declarations `decls`
ContainerOf(decls, names) ==
  IF names = <<>> THEN decls
  ELSE ContainerOf((CHOOSE d \in {decls[i] : i \in DOMAIN decls} :
                      d.kind = "Module" /\ d.name = Head(names)).members,
                   Tail(names))

HostMembers == ContainerOf(tu.global_declarations, HostPath(given))
HostFunction ==
  CHOOSE d \in {HostMembers[i] : i \in DOMAIN HostMembers} :
    d.kind = "Function" /\ d.name = nh

(***************************************************************************)
(* Claims                                                                  *)
(***************************************************************************)
NamesOf(path) == Names(path.value)

\* the path is one segment, bound to a builtin or by its own declaration
\* (local declaration, formal parameter or template parameter)
SingleAndLocal(o) ==
  /\ Len(o.path.value) = 1
  /\ o.path.value[1].name \in BuiltinNames \cup o.local
\* the first segment names a root-level declaration
StartsAtRoot(o) ==
  /\ o.path.value # <<>>
  /\ o.path.value[1].name \in RootNames(tu)

\* C1: after resolve_mut has returned Ok, every identifier, function-call and
\* type path of the output tree is either a single segment bound to a builtin,
\* a local declaration, a formal parameter or a template parameter, or a path
\* whose first segment names a declaration at the root of the unit.
C1_EveryPathLocalOrAbsolute ==
  ReturnedOk => \A o \in Occurrences(tu) : SingleAndLocal(o) \/ StartsAtRoot(o)

\* C2: inside a module of absolute path mp, a path whose first segment names a
\* member of that module (here the constant s, declared before or after the
\* function that uses it) is rewritten to mp followed by all of its segments.
C2_MemberPathPrefixed ==
  (Returned /\ given.host # "root" /\ given.ref = <<ns>>)
    => /\ result = Ok
       /\ \A p \in TheRef : NamesOf(p) = HostPath(given) \o <<ns>>

\* C3: after `use A::f as g`, a reference whose first segment is g is
\* rewritten to A, f and then its own remaining segments, g is gone from it,
\* and the item name f is not bound by the directive.
C3_UseRenameConsumed ==
  (Returned /\ given.directive = "use_rename")
    => /\ given.ref[1] = ng
            => /\ result = Ok
               /\ \A p \in TheRef :
                    /\ NamesOf(p) = <<nA, nf>> \o Tail(given.ref)
                    /\ \A i \in DOMAIN p.value : p.value[i].name # ng
       /\ given.ref = <<nf>>
            => \A i \in DOMAIN trace :
                 trace[i].span = SpanRef => trace[i].kind # "UseDeclaration"

\* the template arguments the binding of g carries after `use A::k<s> as g`
BoundTemplateArgs == DirectivesOf(given)[1].usage.content.template_args

\* C4: when the first segment of a path is bound to a use declaration with
\* module path mp and non-empty template arguments, the rewritten path is mp
\* followed by the remaining segments of the path, and the first retained
\* segment (read as the first segment of the result, as the last segment of mp,
\* or as the first remaining segment of the path) carries exactly those
\* template arguments.
C4_UseTemplateArgsCarried ==
  (Returned /\ given.directive = "use_args" /\ given.ref[1] = ng)
    => /\ result = Ok
       /\ \A p \in TheRef :
            /\ NamesOf(p) = <<nA, nk>> \o Tail(given.ref)
            /\ \/ p.value[1].template_args = BoundTemplateArgs
               \/ p.value[2].template_args = BoundTemplateArgs
               \/ /\ Len(p.value) > 2
                  /\ p.value[3].template_args = BoundTemplateArgs

\* the name the pass must give the template parameter T of h
MangledT ==
  mangle_template_parameter_name([i \in 1..Len(HostPath(given)) |->
                                    Part(HostPath(given)[i])], nh, nT)

\* C5: the template parameter T of the function h in the module of path mp is
\* renamed to mangle(mp, h, T), and every reference to T in the return type,
\* the parameter types and the body of h is rewritten to that same name.
C5_TemplateParameterRenamed ==
  (Returned /\ given.ref = <<nT>>)
    => /\ result = Ok
       /\ TemplateParameterNames(HostFunction) = {MangledT}
       /\ \A p \in TheRef : NamesOf(p) = <<MangledT>>

\* C6: mangle_template_parameter_name is injective: two different triples
\* (module path, containing name, parameter name) of identifiers, underscores
\* at their ends included, never yield the same name.
C6_MangleInjective ==
  (mout.some /\ ma # mb) => mout.v[1] # mout.v[2]

\* C7: when the first segment of a referenced path is bound nowhere (z never
\* is), the pass returns SymbolNotFound with the whole path, all its segments,
\* as payload and the span of the path as span.
C7_SymbolNotFoundWholePath ==
  (Returned /\ given.ref[1] = nz)
    => result = SymbolNotFound([i \in 1..Len(given.ref) |-> Part(given.ref[i])], SpanRef)

\* the named members of the library module A, as the unit was given
LibraryNames == {Library(given).members[i].name : i \in DOMAIN Library(given).members}
\* the aliases among the members of the container of the extend directive
HostAliases == SelectSeq(HostMembers, LAMBDA d : d.kind = "Alias")

\* C8: for `extend A` the container gains exactly one alias per named member
\* m of A, named m.name, whose type path is the absolute path of A followed by
\* m.name.
C8_ExtendAliases ==
  (ReturnedOk /\ given.directive = "extend")
    => /\ Len(HostAliases) = Cardinality(LibraryNames)
       /\ \A m \in LibraryNames :
            \E i \in DOMAIN HostAliases :
              /\ HostAliases[i].name = m
              /\ NamesOf(HostAliases[i].typ.path) = <<nA, m>>

\* C9: the pass is idempotent on its output: applied to the tree a successful
\* run left behind, it returns Ok and leaves the tree as it was.
C9_Idempotent ==
  (pc = "done" /\ run = 2)
    => /\ result = Ok
       /\ tu = first_output.v

\* C10: the statements of a continuing block and its break_if expression are
\* resolved under a scope that holds the local declarations of the loop body:
\* a reference to the body's local n from there is handed to the rewriter and
\* found bound to a local declaration.
C10_ContinuingResolved ==
  (Returned /\ given.shape \in {"continuing_statement", "break_if"}
            /\ given.ref = <<nn>>)
    => /\ result = Ok
       /\ \E i \in DOMAIN trace :
            /\ trace[i].span = SpanRef
            /\ trace[i].kind = "LocalDeclaration"


(***************************************************************************)
(* Termination, fail-fast, scoping and directive claims.                   *)
(***************************************************************************)

\* C11: every run of the pass on a finite unit terminates and returns either
\* Ok or a SymbolNotFound error, also when modules extend themselves or one
\* another (the extend paths bound to no module, which abort the pass, set
\* aside: they are the matter of C19).
C11_ReturnsOkOrSymbolNotFound ==
  (Returned /\ given.directive \notin TargetsNoModule)
    => result.kind \in {"Ok", "SymbolNotFound"}

\* the unit without its explicitly empty template argument list
WithoutEmptyArgs(c) ==
  Unit([c EXCEPT !.shape = IF @ = "call_empty_args" THEN "call" ELSE @])

TraceSpans == {trace[i].span : i \in DOMAIN trace}
Unbound == {i \in DOMAIN trace : trace[i].kind = "unbound"}

\* C13: the pass fails fast: an unresolved path met by the walk ends the walk,
\* the error returned is the SymbolNotFound of that path (the first one met),
\* and no path node that the walk had not reached by then is rewritten.
C13_FailFast ==
  Returned =>
    /\ \A i \in Unbound :
         /\ \A j \in DOMAIN trace : j > i => trace[j].kind = "abandoned"
         /\ result.kind = "SymbolNotFound"
         /\ result.span = trace[i].span
    /\ result.kind = "SymbolNotFound" =>
         \A o \in Occurrences(tu) :
           o.path.span \notin TraceSpans
             => \E p \in Occurrences(input) : p.path = o.path

\* the call of an unbound name has failed and the reference to the template
\* parameter T in the statement after it is as the parser left it
C13_Witness ==
  /\ Returned
  /\ given.shape = "then_template_parameter"
  /\ given.ref = <<nn>>
  /\ result.kind = "SymbolNotFound"
  /\ result.span = SpanRef
  /\ \E o \in Occurrences(tu) : o.path.span = SpanBase /\ NamesOf(o.path) = <<nT>>

\* how the first name of the reference is bound where the body of h starts
OuterKind(c) ==
  LET name == c.ref[1] IN
  CASE name = ns -> IF c.host = "root" THEN "GlobalDeclaration"
                    ELSE "ModuleMemberDeclaration"
    [] name = nT -> "TemplateParam"
    [] name = nx -> "FormalFunctionParameter"
    [] name = i32 -> "BuiltIn"
    [] name = nA -> "GlobalDeclaration"
    [] name = ng /\ c.directive = "use_rename" -> "UseDeclaration"
    [] OTHER -> "unbound"

KindsAt(span) == {trace[i].kind : i \in {j \in DOMAIN trace : trace[j].span = span}}
PathsAt(unit, span) == {o.path : o \in {x \in Occurrences(unit) : x.path.span = span}}

\* C14: in  let x: T = e; <trailing statements>  the paths of e and T are
\* resolved with the scope from before x was bound (a reference to x there
\* finds the outer binding of x, or fails if there is none), and a reference
\* to x in the trailing statements resolves to LocalDeclaration and is left
\* unchanged.
C14_DeclarationScoping ==
  (Returned /\ given.shape = "let_shadow") =>
    /\ KindsAt(SpanRef) = {OuterKind(given)}
    /\ IF OuterKind(given) = "unbound"
       THEN /\ result.kind = "SymbolNotFound"
            /\ result.span = SpanRef
            /\ KindsAt(SpanLetType) = {}
            /\ KindsAt(SpanBase) = {}
       ELSE /\ result = Ok
            /\ KindsAt(SpanLetType) = {OuterKind(given)}
            /\ {NamesOf(p) : p \in PathsAt(tu, SpanLetType)}
                 = {NamesOf(p) : p \in PathsAt(tu, SpanRef)}
            /\ KindsAt(SpanBase) = {"LocalDeclaration"}
            /\ PathsAt(tu, SpanBase) = PathsAt(input, SpanBase)

\* let s: s = s; return s;  in module M: the initializer and the type have
\* become M::s, the trailing reference is still s
C14_Witness ==
  /\ ReturnedOk
  /\ given.shape = "let_shadow"
  /\ given.ref = <<ns>>
  /\ given.host = "module"
  /\ {NamesOf(p) : p \in PathsAt(tu, SpanRef)} = {<<nM, ns>>}
  /\ {NamesOf(p) : p \in PathsAt(tu, SpanLetType)} = {<<nM, ns>>}
  /\ {NamesOf(p) : p \in PathsAt(tu, SpanBase)} = {<<ns>>}

\* C15: scope is lexical: a name bound inside a compound block, an if, else
\* or switch clause, a while body or a for statement (by a local declaration
\* or a block-local use directive) is not in scope for the statements after
\* that construct; these see the bindings they would see without it.
C15_LexicalScope ==
  (Returned /\ given.shape \in AfterShapes) =>
    /\ KindsAt(SpanRef) = {OuterKind(given)}
    /\ IF OuterKind(given) = "unbound"
       THEN result.kind = "SymbolNotFound" /\ result.span = SpanRef
       ELSE result = Ok
    /\ OuterKind(given) = "UseDeclaration"
         => \A p \in PathsAt(tu, SpanRef) :
              SubSeq(NamesOf(p), 1, 2) = <<nA, nf>>

\* after  if .. { } else if .. { use A::k as g; let n = 0; let x = 0; } else
\* { the same }  the call of n has failed as unbound
C15_Witness ==
  /\ Returned
  /\ given.shape = "after_else"
  /\ given.ref = <<nn>>
  /\ result.kind = "SymbolNotFound"
  /\ result.span = SpanRef
  /\ SpanBlockUse \in TraceSpans

\* the positions of the trace where a path with one of the spans was resolved
TraceAt(spans) == {i \in DOMAIN trace : trace[i].span \in spans}
\* the positions where the path of the extend directive itself was resolved
\* (the aliases it generates are members, and carry its span too)
ExtendAt == {i \in TraceAt({SpanDirective}) : trace[i].names = <<nA>>}
\* the spans of the paths of the function h
MemberSpans == {SpanParamType, SpanReturnType, SpanRef, SpanBase, SpanLetType}

\* C16: within a module every use directive is bound before any extend
\* directive is expanded, and the use bindings and the aliases of the
\* extensions are in scope before the first member is walked, whatever the
\* textual order of the directives.
C16_UseBeforeExtendBeforeMembers ==
  (Returned /\ given.directive \in BothDirectives) =>
    /\ \A i \in TraceAt({SpanSecondDirective}) : \A j \in ExtendAt : i < j
    /\ \A i \in TraceAt({SpanSecondDirective}) \cup ExtendAt :
         \A j \in TraceAt(MemberSpans) : i < j
    /\ TraceAt(MemberSpans) # {} => TraceAt({SpanSecondDirective}) # {} /\ ExtendAt # {}
    /\ given.ref = <<ng>> => KindsAt(SpanRef) = {"UseDeclaration"}
    /\ given.ref = <<nf>> => KindsAt(SpanRef) = {"ModuleMemberDeclaration"}

\* mod M { extend A; use A::k as g; .. fn h .. { f(); } }: the use directive
\* was bound first and h has found the alias f of the extension
C16_Witness ==
  /\ ReturnedOk
  /\ given.directive = "extend_then_use"
  /\ given.ref = <<nf>>
  /\ KindsAt(SpanRef) = {"ModuleMemberDeclaration"}
  /\ TraceAt({SpanSecondDirective}) # {}
  /\ ExtendAt # {}

\* C17: for  use P::{Q::x, y}  each child is processed with the base path of
\* the parent followed by its own, so x is bound to the absolute path of P,
\* then Q, then x, and y to the absolute path of P, then y.
C17_CollectionPaths ==
  (Returned /\ given.directive \in CollectionDirectives) =>
    /\ given.ref = <<nf>>
         => result = Ok /\ {NamesOf(p) : p \in PathsAt(tu, SpanRef)} = {<<nA, nf>>}
    /\ (given.ref = <<ng>> /\ given.directive = "use_collection")
         => result = Ok /\ {NamesOf(p) : p \in PathsAt(tu, SpanRef)} = {<<nA, nQ, ny>>}

\* C18: resolving the target of an extend directive returns SymbolNotFound with
\* the extend path and its span when the first segment of the path is not
\* bound in scope, or when a later segment does not name a nested module of
\* the module the segments before it lead to.
C18_ExtendTargetNotFound ==
  (Returned /\ given.directive \in MissingTargets) =>
    result = [kind |-> "SymbolNotFound", path |-> DirectivesOf(given)[1].path.value,
              span |-> SpanDirective]

\* extend A::f  has failed: f is a function of A, and the error names A::f
C18_Witness ==
  /\ Returned
  /\ given.directive = "extend_function"
  /\ result.kind = "SymbolNotFound"
  /\ Names(result.path) = <<nA, nf>>
  /\ result.span = SpanDirective

\* C19: when the first segment of an extend path is bound to something that is
\* no module declaration (also a name that a use directive of the same
\* container binds to a module), the pass aborts with a fatal invariant
\* failure: it returns neither SymbolNotFound nor Ok.
C19_ExtendTargetNoModule ==
  (Returned /\ given.directive \in TargetsNoModule) => result.kind = "panic"

\* use A::Q; extend Q;  has aborted the pass, after Q was bound by the use
\* directive
C19_Witness ==
  /\ Returned
  /\ given.directive = "use_module_then_extend"
  /\ result.kind = "panic"
  /\ TraceAt({SpanSecondDirective}) # {}

\* C20: during one run every path node of the unit is handed to the path
\* rewriter at most once: no statement or expression is walked a second time,
\* in particular not in the body of a loop that has a continuing block.
C20_EachPathOnce ==
  Returned =>
    \A i \in TraceAt(MemberSpans) : \A j \in TraceAt(MemberSpans) :
      trace[i].span = trace[j].span => i = j

(***************************************************************************)
(* Template arguments, expressions and loop directives.                    *)
(***************************************************************************)

CallPart(unit) ==
  LET path == CHOOSE q \in PathsAt(unit, SpanRef) : TRUE
  IN path.value[Len(path.value)]
NamedMembers(part) ==
  SelectSeq(part.inline_template_args.v.members, LAMBDA m : name_of(m).some)
\* the module path the part's template parameters are mangled under: that of
\* the declaration the prefix of the part resolves to
ContainingPath(c) ==
  CASE c.ref = <<ns>> -> HostPath(c)
    [] c.ref \in {<<nA, nf>>, <<ng>>} -> <<nA>>
    [] OTHER -> <<>>
InlineNameOf(c, name) ==
  mangle_inline_arg_name([i \in 1..Len(HostPath(c)) |-> Part(HostPath(c)[i])],
                         [i \in 1..Len(c.ref) |-> Part(c.ref[i])], name)
SynthesizedArg(c, member) ==
  [arg_name |-> Some(mangle_template_parameter_name(
                       [i \in 1..Len(ContainingPath(c)) |-> Part(ContainingPath(c)[i])],
                       c.ref[Len(c.ref)], member.name)),
   expression |-> Identifier(Append(HostPath(c), InlineNameOf(c, member.name)),
                             member.name_span)]

\* C22: for a path part carrying an inline template-args block with k named
\* members, after the path is rewritten the part's template_args are its
\* original arguments followed by exactly k synthesized arguments in member
\* order, each with the mangled argument name of the member as arg_name and
\* the identifier  <current module path>::<inline name>  as expression; each
\* named member is renamed to its inline name and the block stays attached.
C22_InlineArgsSynthesized ==
  (ReturnedOk /\ given.shape \in InlineShapes) =>
    LET before == CallPart(input)
        after == CallPart(tu)
        named == NamedMembers(before)
        original == IF before.template_args.some THEN before.template_args.v ELSE <<>>
    IN /\ after.template_args =
            Some(original \o [j \in 1..Len(named) |-> SynthesizedArg(given, named[j])])
       /\ after.inline_template_args.some
       /\ after.inline_template_args.v.members =
            [j \in 1..Len(before.inline_template_args.v.members) |->
               LET m == before.inline_template_args.v.members[j]
               IN IF name_of(m).some
                  THEN [m EXCEPT !.name = InlineNameOf(given, m.name)] ELSE m]

\* C23: the expression walker invokes the path rewriter on every path held
\* anywhere in an expression: both operands of a binary expression, the
\* operand of a unary or parenthesized expression, every call argument, the
\* base of a named-component expression, and the base and the index operand
\* of an indexing expression; an unbound name in any of these positions
\* yields SymbolNotFound.
C23_EveryOperandWalked ==
  (Returned /\ given.shape \in OperandShapes /\ given.directive \in {"none", "use_rename"}
            /\ given.library = "plain") =>
    /\ KindsAt(SpanRef) = {OuterKind(given)}
    /\ OuterKind(given) = "unbound"
         => result.kind = "SymbolNotFound" /\ result.span = SpanRef

\* C24: a use directive among the directives of a loop body binds each
\* imported name to the same absolute path as the identical directive of a
\* plain compound block under the same enclosing scope (here A::k for g), for
\* item contents and for collection contents alike, with or without a
\* continuing block.
C24_LoopUseLikeCompoundUse ==
  (Returned /\ given.shape \in BlockUseShapes) =>
    /\ result = Ok
    /\ {NamesOf(p) : p \in PathsAt(tu, SpanRef)} = {<<nA, nk>>}

====
